---- MODULE Spec2Model ----
(***************************************************************************)
(* A model of minidom ("Minimal DOM"), a facade of free functions over the *)
(* host document tree.  JavaScript strings are sequences of one-character  *)
(* strings, so that split / trim / join / replace are computed as the code *)
(* computes them.  The host's own objects (class list, dataset, tree       *)
(* linking, event constructors) are modelled by what the DOM standard says *)
(* they do, at the place where the code calls them.                        *)
(***************************************************************************)
EXTENDS Integers, Sequences, FiniteSets, TLC

VARIABLES
  \* ---- class helpers: one element and the calls made on it ----
  className,       \* element.className, the raw class attribute
  classList,       \* TRUE iff the host gives the element a classList
  clsCall,         \* the last call made on the element
  clsPrev          \* what is remembered of the call before it

classVars == <<className, classList, clsCall, clsPrev>>

VARIABLES
  \* ---- data helpers: one element and the calls made on it ----
  attributes,      \* the element's attributes: name -> string value
  dataset,         \* TRUE iff the host gives the element a dataset
  dataSets,        \* number of setData calls made so far
  dataCall,        \* the last call made on the element
  dataPrev         \* what is remembered of the call before it

dataVars == <<attributes, dataset, dataSets, dataCall, dataPrev>>

VARIABLES
  \* ---- the document tree and the calls made on it ----
  node,            \* node -> [kind, tag, id]; kind "free" = not yet created
  children,        \* node -> the sequence of its child nodes
  fragmentNative,  \* TRUE iff the host range has createContextualFragment
  docRange,        \* the cached empty range ("null" until first used)
  nodeFactory,     \* the cached scratch element ("null" until first used)
  treeCall         \* the last call made

treeVars == <<node, children, fragmentNative, docRange, nodeFactory,
              treeCall>>

VARIABLES
  \* ---- event construction: the engine and the calls made ----
  engine,          \* which event interfaces the host can construct, and how
  eventArgs,       \* the arguments event(...) is called with
  eventCall        \* the last event(...) call made

eventVars == <<engine, eventArgs, eventCall>>

VARIABLES
  \* ---- matches: one element, its matching methods, the calls made ----
  elementMethods,  \* capability name -> the element's method, or Absent
  matchCall        \* the last matches(...) call made

matchVars == <<elementMethods, matchCall>>

VARIABLES
  \* ---- ready: the document's loading and the ready(...) calls made ----
  readyState,      \* document.readyState
  listeners,       \* the DOMContentLoaded listeners on the document, in order
  timers,          \* the callbacks handed to setTimeout and not yet run
  called,          \* the ready calls that have returned (numbered 1, 2, ...)
  runs,            \* call -> how many times its callback has been invoked
  notified         \* [host, script]: DOMContentLoaded notifications so far

readyVars == <<readyState, listeners, timers, called, runs, notified>>

VARIABLES
  \* ---- node kinds: a value and the last call made on it ----
  typeValue,       \* the value getType / isNode are called on
  typeCall         \* the last call made on it

typeVars == <<typeValue, typeCall>>

VARIABLES
  \* ---- each: the call in progress on the document tree ----
  eachCall         \* the each(...) call being made, or the last one made

eachVars == <<eachCall>>

vars == <<classVars, dataVars, treeVars, eventVars, matchVars, readyVars,
          typeVars, eachVars>>

\* the groups an action of one group leaves alone
exceptClass == <<dataVars, treeVars, eventVars, matchVars, readyVars,
                typeVars, eachVars>>
exceptData == <<classVars, treeVars, eventVars, matchVars, readyVars,
                typeVars, eachVars>>
exceptTree == <<classVars, dataVars, eventVars, matchVars, readyVars,
                typeVars, eachVars>>
exceptEvent == <<classVars, dataVars, treeVars, matchVars, readyVars,
                typeVars, eachVars>>
exceptMatch == <<classVars, dataVars, treeVars, eventVars, readyVars,
                typeVars, eachVars>>
exceptReady == <<classVars, dataVars, treeVars, eventVars, matchVars,
                typeVars, eachVars>>
exceptType == <<classVars, dataVars, treeVars, eventVars, matchVars,
               readyVars, eachVars>>

\* an each call works on the tree: the groups it leaves alone
exceptEach == <<classVars, dataVars, eventVars, matchVars, readyVars,
               typeVars>>

\* ---------------------------------------------------------------------
\* Bounds
\* ---------------------------------------------------------------------
MaxAttrLen == 3      \* longest initial class attribute value
MaxNames == 2        \* longest list of class names passed to a helper
MaxSets == 2         \* setData calls made on the element
MaxFresh == 2        \* nodes the tree helpers may create (parsed from markup)
MaxCreated == 7      \* nodes the fragment calls may create
MaxReady == 3        \* ready calls made
MaxKids == 2         \* elements that can be children of the parent of each
MaxBeyond == 12      \* how far node-kind tags go below 0 and above 12
MaxNotify == 2       \* DOMContentLoaded events dispatched by scripts

\* ---------------------------------------------------------------------
\* JavaScript strings and arrays
\* ---------------------------------------------------------------------
Space == " "

RECURSIVE StrsUpTo(_, _)
StrsUpTo(chars, n) ==
  IF n = 0 THEN {<<>>}
  ELSE LET shorter == StrsUpTo(chars, n - 1)
       IN  shorter \cup {Append(s, c) : s \in shorter, c \in chars}

RECURSIVE DropSpaces(_)
DropSpaces(s) ==
  IF s # <<>> /\ Head(s) = Space THEN DropSpaces(Tail(s)) ELSE s

RECURSIVE DropSpacesEnd(_)
DropSpacesEnd(s) ==
  IF s # <<>> /\ s[Len(s)] = Space
  THEN DropSpacesEnd(SubSeq(s, 1, Len(s) - 1)) ELSE s

\* String.prototype.trim
Trim(s) == DropSpacesEnd(DropSpaces(s))

\* String.prototype.split(' '): a cut at every single space
RECURSIVE SplitSpace(_)
SplitSpace(s) ==
  IF s = <<>> THEN << <<>> >>
  ELSE LET rest == SplitSpace(Tail(s))
       IN  IF Head(s) = Space THEN << <<>> >> \o rest
           ELSE << <<Head(s)>> \o Head(rest) >> \o Tail(rest)

\* String.prototype.split(/ +/): a cut at every run of spaces
RECURSIVE SplitSpaces(_)
SplitSpaces(s) ==
  IF s = <<>> THEN << <<>> >>
  ELSE IF Head(s) = Space THEN << <<>> >> \o SplitSpaces(DropSpaces(s))
  ELSE LET rest == SplitSpaces(Tail(s))
       IN  << <<Head(s)>> \o Head(rest) >> \o Tail(rest)

\* Array.prototype.join(' ')
RECURSIVE Join(_)
Join(list) ==
  IF list = <<>> THEN <<>>
  ELSE IF Len(list) = 1 THEN list[1]
  ELSE list[1] \o <<Space>> \o Join(Tail(list))

\* Array.prototype.indexOf, 1-based, 0 when absent (JavaScript: -1)
RECURSIVE IndexFrom(_, _, _)
IndexFrom(list, x, i) ==
  IF i > Len(list) THEN 0
  ELSE IF list[i] = x THEN i
  ELSE IndexFrom(list, x, i + 1)

IndexOf(list, x) == IndexFrom(list, x, 1)

\* Array.prototype.splice(i, 1)
Splice(list, i) == SubSeq(list, 1, i - 1) \o SubSeq(list, i + 1, Len(list))

Range(list) == {list[i] : i \in 1..Len(list)}

RECURSIVE ListsUpTo(_, _)
ListsUpTo(S, n) ==
  IF n = 0 THEN {<<>>}
  ELSE LET shorter == ListsUpTo(S, n - 1)
       IN  shorter \cup {Append(l, x) : l \in shorter, x \in S}

\* ---------------------------------------------------------------------
\* Class helpers
\* ---------------------------------------------------------------------
\* the characters of the initial class attribute (the helpers treat all
\* non-space characters alike; "b" enters the attribute through the calls)
AttrChars == {"a", Space}

\* the class names callers pass: non-empty, no white space
ClassNames == {<<"a">>, <<"b">>}

\* a list of class names, as an array or as a space-separated string
NameInputs ==
  [form : {"array"}, value : ListsUpTo(ClassNames, MaxNames)]
  \cup {[form |-> "string", value |-> Join(l)] :
          l \in ListsUpTo(ClassNames, MaxNames) \ {<<>>}}

resolveNames(names) ==
  IF names.form = "string" THEN SplitSpace(names.value) ELSE names.value

getClassNames(cls) == SplitSpaces(Trim(cls))

\* The host's DOMTokenList over the class attribute: the ordered set of
\* the attribute's tokens; every mutation writes the serialised set back.
RECURSIVE Dedup(_)
Dedup(list) ==
  IF list = <<>> THEN <<>>
  ELSE LET front == Dedup(SubSeq(list, 1, Len(list) - 1))
           last == list[Len(list)]
       IN  IF last \in Range(front) THEN front ELSE Append(front, last)

TokenSet(cls) == Dedup(SelectSeq(SplitSpaces(Trim(cls)), LAMBDA t : t # <<>>))

Tokens(cls) == Range(TokenSet(cls))

classListAdd(cls, name) ==
  LET set == TokenSet(cls)
  IN  Join(IF name \in Range(set) THEN set ELSE Append(set, name))

classListRemove(cls, name) ==
  LET set == TokenSet(cls)
  IN  IF set = <<>> /\ cls = <<>> THEN cls
      ELSE Join(SelectSeq(set, LAMBDA t : t # name))

classListToggle(cls, name) ==
  IF name \in Tokens(cls) THEN classListRemove(cls, name)
  ELSE classListAdd(cls, name)

classListContains(cls, name) == name \in Tokens(cls)

\* classNames.forEach(step) over the class attribute
RECURSIVE ForEachName(_, _, _)
ForEachName(step(_, _), acc, names) ==
  IF names = <<>> THEN acc
  ELSE ForEachName(step, step(acc, Head(names)), Tail(names))

addName(current, name) ==
  IF IndexOf(current, name) = 0 THEN Append(current, name) ELSE current

removeName(current, name) ==
  LET i == IndexOf(current, name)
  IN  IF i > 0 THEN Splice(current, i) ELSE current

toggleName(current, name) ==
  LET i == IndexOf(current, name)
  IN  IF i = 0 THEN Append(current, name) ELSE Splice(current, i)

\* addClass with the update flag overwritten by every name instead of
\* latched: the attribute is written only when the last name was new
addClass_lastOnly(cls, native, names) ==
  IF native THEN ForEachName(classListAdd, cls, resolveNames(names))
  ELSE LET classNames == resolveNames(names)
           currentNames == getClassNames(cls)
           newNames == ForEachName(addName, currentNames, classNames)
           update == /\ classNames # <<>>
                     /\ IndexOf(ForEachName(addName, currentNames,
                                            SubSeq(classNames, 1, Len(classNames) - 1)),
                                classNames[Len(classNames)]) = 0
       IN  IF update THEN Join(newNames) ELSE cls

\* the value of element.className after addClass(element, names)
addClass(cls, native, names) ==
  IF native THEN ForEachName(classListAdd, cls, resolveNames(names))
  ELSE LET currentNames == getClassNames(cls)
           newNames == ForEachName(addName, currentNames, resolveNames(names))
           update == newNames # currentNames
       IN  IF update THEN Join(newNames) ELSE cls

\* the value of element.className after removeClass(element, names)
removeClass(cls, native, names) ==
  IF native THEN ForEachName(classListRemove, cls, resolveNames(names))
  ELSE LET currentNames == getClassNames(cls)
           newNames == ForEachName(removeName, currentNames, resolveNames(names))
           update == newNames # currentNames
       IN  IF update THEN Join(newNames) ELSE cls

\* the value of element.className after toggleClass(element, names)
toggleClass(cls, native, names) ==
  IF native THEN ForEachName(classListToggle, cls, resolveNames(names))
  ELSE Join(ForEachName(toggleName, getClassNames(cls), resolveNames(names)))

\* the value hasClass(element, names) returns
hasClass(cls, native, names) ==
  LET classNames == resolveNames(names)
      currentNames == getClassNames(cls)
  IN  IF native
      THEN \A i \in 1..Len(classNames) : classListContains(cls, classNames[i])
      ELSE \A i \in 1..Len(classNames) : IndexOf(currentNames, classNames[i]) > 0

\* The last call: its operation, its resolved names, what hasClass
\* returned, and (toggleClass only) the class names held before it.
NoCall == [op |-> "none", names |-> <<>>, tokens |-> {}, result |-> FALSE]

NoPrev == [op |-> "none", tokens |-> {}]

Call(op, names, result) ==
  [op |-> op, names |-> resolveNames(names),
   tokens |-> IF op = "toggleClass" THEN Tokens(className) ELSE {},
   result |-> result]

\* What a call remembers of the call made just before it, when that call
\* had the same names: its operation and (for a repeated toggle only) the
\* class names the element had before that earlier call.
Shift(op, names) ==
  LET same == clsCall.op # "none" /\ clsCall.names = resolveNames(names)
  IN  [op |-> IF same THEN clsCall.op ELSE "other",
       tokens |-> IF op = "toggleClass" /\ clsCall.op = "toggleClass" /\ same
                  THEN clsCall.tokens ELSE {}]

ClassStart ==
  /\ className \in StrsUpTo(AttrChars, MaxAttrLen)
  /\ classList \in BOOLEAN
  /\ clsCall = NoCall
  /\ clsPrev = NoPrev

ClassIdle ==
  /\ className = <<>>
  /\ classList = TRUE
  /\ clsCall = NoCall
  /\ clsPrev = NoPrev

AddClass(names) ==
  /\ className' = addClass(className, classList, names)
  /\ clsCall' = Call("addClass", names, FALSE)
  /\ clsPrev' = Shift("addClass", names)
  /\ UNCHANGED <<classList, exceptClass>>

RemoveClass(names) ==
  /\ className' = removeClass(className, classList, names)
  /\ clsCall' = Call("removeClass", names, FALSE)
  /\ clsPrev' = Shift("removeClass", names)
  /\ UNCHANGED <<classList, exceptClass>>

ToggleClass(names) ==
  /\ className' = toggleClass(className, classList, names)
  /\ clsCall' = Call("toggleClass", names, FALSE)
  /\ clsPrev' = Shift("toggleClass", names)
  /\ UNCHANGED <<classList, exceptClass>>

HasClass(names) ==
  /\ clsCall' = Call("hasClass", names, hasClass(className, classList, names))
  /\ clsPrev' = Shift("hasClass", names)
  /\ UNCHANGED <<className, classList, exceptClass>>

NextClass ==
  \E names \in NameInputs :
    \/ AddClass(names)
    \/ RemoveClass(names)
    \/ ToggleClass(names)
    \/ HasClass(names)

\* ---------------------------------------------------------------------
\* Data helpers
\* ---------------------------------------------------------------------
Lower == {"a", "b"}
Upper == {"A", "B"}

toLowerCase(c) == CASE c = "A" -> "a" [] c = "B" -> "b" [] OTHER -> c
toUpperCase(c) == CASE c = "a" -> "A" [] c = "b" -> "B" [] OTHER -> c

\* JavaScript values: <<type, payload>>
Bool(b) == <<"boolean", b>>
Num(n) == <<"number", n>>
Str(s) == <<"string", s>>
Null == <<"null">>
Undefined == <<"undefined">>

\* the keys and values callers pass to setData / getData
DataKeys ==
  { <<"a">>, <<"a", "B">>, <<"B", "a">>, <<"a", "-", "B">>, <<"a", "-", "b">> }

\* (the numbers are 0 and 1)
DataValues == {Bool(TRUE), Bool(FALSE), Num(0), Str("x"), Null}

\* '' + value
StringOf(value) ==
  CASE value[1] = "boolean" -> IF value[2] THEN "true" ELSE "false"
    [] value[1] = "number" -> (IF value[2] = 0 THEN "0" ELSE "1")
    [] value[1] = "string" -> value[2]
    [] value[1] = "null" -> "null"
    [] value[1] = "undefined" -> "undefined"

\* key.replace(/[A-Z]/g, (char) => '-' + char.toLowerCase())
RECURSIVE ReplaceUpper(_)
ReplaceUpper(key) ==
  IF key = <<>> THEN <<>>
  ELSE IF Head(key) \in Upper
       THEN <<"-", toLowerCase(Head(key))>> \o ReplaceUpper(Tail(key))
       ELSE <<Head(key)>> \o ReplaceUpper(Tail(key))

DataPrefix == <<"d", "a", "t", "a", "-">>

toDataKey(key) == DataPrefix \o ReplaceUpper(key)

\* The host's DOMStringMap over the data-* attributes.  A key holding a
\* hyphen followed by a lower-case letter is refused by the setter; the
\* getter names each data-* attribute by turning every hyphen followed by
\* a lower-case letter into the upper-case letter.
datasetRefuses(key) ==
  \E i \in 1..(Len(key) - 1) : key[i] = "-" /\ key[i + 1] \in Lower

RECURSIVE CamelCase(_)
CamelCase(name) ==
  IF name = <<>> THEN <<>>
  ELSE IF Len(name) >= 2 /\ name[1] = "-" /\ name[2] \in Lower
       THEN <<toUpperCase(name[2])>> \o CamelCase(Tail(Tail(name)))
       ELSE <<Head(name)>> \o CamelCase(Tail(name))

IsDataName(name) ==
  /\ Len(name) >= Len(DataPrefix)
  /\ SubSeq(name, 1, Len(DataPrefix)) = DataPrefix
  /\ \A i \in 1..Len(name) : name[i] \notin Upper

datasetName(name) == CamelCase(SubSeq(name, Len(DataPrefix) + 1, Len(name)))

datasetGet(attrs, key) ==
  LET names == {n \in DOMAIN attrs : IsDataName(n) /\ datasetName(n) = key}
  IN  IF names = {} THEN Undefined ELSE Str(attrs[CHOOSE n \in names : TRUE])

\* element.setAttribute(name, value) / element.getAttribute(name)
setAttribute(attrs, name, value) ==
  [n \in DOMAIN attrs \cup {name} |-> IF n = name THEN value ELSE attrs[n]]

getAttribute(attrs, name) ==
  IF name \in DOMAIN attrs THEN Str(attrs[name]) ELSE Null

\* dataset[key] = value, for a key the setter accepts: the host writes the
\* data-* attribute whose name hyphenates every upper-case letter of key
RECURSIVE Hyphenate(_)
Hyphenate(key) ==
  IF key = <<>> THEN <<>>
  ELSE IF Head(key) \in Upper
       THEN <<"-", toLowerCase(Head(key))>> \o Hyphenate(Tail(key))
       ELSE <<Head(key)>> \o Hyphenate(Tail(key))

datasetSet(attrs, key, value) ==
  setAttribute(attrs, DataPrefix \o Hyphenate(key), value)

\* the element's attributes after setData(element, key, value)
setData(attrs, native, key, value) ==
  IF native THEN datasetSet(attrs, key, StringOf(value))
  ELSE setAttribute(attrs, toDataKey(key), StringOf(value))

\* getData reading the attribute named 'data-' + key, the key unconverted
getData_rawKey(attrs, native, key) ==
  IF native THEN datasetGet(attrs, key) ELSE getAttribute(attrs, DataPrefix \o key)

\* the value getData(element, key) returns
getData(attrs, native, key) ==
  IF native THEN datasetGet(attrs, key) ELSE getAttribute(attrs, toDataKey(key))

NoAttributes == [n \in {} |-> ""]

NoDataCall == [op |-> "none", key |-> <<>>, value |-> Undefined,
               result |-> Undefined, threw |-> FALSE]

NoDataPrev == [op |-> "none", value |-> Undefined]

\* What a call remembers of the call made just before it, when that call
\* had the same key and returned normally: its operation and its value.
DataShift(key) ==
  IF dataCall.op # "none" /\ dataCall.key = key /\ ~dataCall.threw
  THEN [op |-> dataCall.op, value |-> dataCall.value]
  ELSE [op |-> "other", value |-> Undefined]

\* the element as created or as parsed from markup with one data attribute
DataStart ==
  /\ attributes \in {NoAttributes} \cup
       {setAttribute(NoAttributes, toDataKey(k), "old") : k \in DataKeys}
  /\ dataset \in BOOLEAN
  /\ dataSets = 0
  /\ dataCall = NoDataCall
  /\ dataPrev = NoDataPrev

DataIdle ==
  /\ attributes = NoAttributes
  /\ dataset = TRUE
  /\ dataSets = 0
  /\ dataCall = NoDataCall
  /\ dataPrev = NoDataPrev

SetData(key, value) ==
  /\ dataSets < MaxSets
  /\ dataSets' = dataSets + 1
  /\ LET threw == dataset /\ datasetRefuses(key)
     IN  /\ attributes' = IF threw THEN attributes
                          ELSE setData(attributes, dataset, key, value)
         /\ dataCall' = [op |-> "setData", key |-> key, value |-> value,
                         result |-> Undefined, threw |-> threw]
  /\ dataPrev' = DataShift(key)
  /\ UNCHANGED <<dataset, exceptData>>

GetData(key) ==
  /\ dataCall' = [op |-> "getData", key |-> key, value |-> Undefined,
                  result |-> getData(attributes, dataset, key), threw |-> FALSE]
  /\ dataPrev' = DataShift(key)
  /\ UNCHANGED <<attributes, dataset, dataSets, exceptData>>

NextData ==
  \/ \E key \in DataKeys, value \in DataValues : SetData(key, value)
  \/ \E key \in DataKeys : GetData(key)

\* ---------------------------------------------------------------------
\* The host document tree
\* ---------------------------------------------------------------------
NullNode == "null"
Doc == "document"

\* the elements the caller holds; "root" starts as the document's child
Elements == {"root", "a"}

\* the names of the nodes created by the calls, in creation order
FreshNames == <<"n1", "n2", "n3", "n4", "n5", "n6", "n7", "n8", "n9">>

Fresh == {FreshNames[i] : i \in 1..MaxFresh}

\* the nodes of the tree helpers' runs, and of the fragment runs
Node == {Doc} \cup Elements \cup Fresh

FragmentNode == {Doc} \cup {FreshNames[i] : i \in 1..MaxCreated}

FreeNode == [kind |-> "free", tag |-> "", id |-> ""]

\* node.parentNode
Parent(ch, n) ==
  IF \E p \in DOMAIN ch : n \in Range(ch[p])
  THEN CHOOSE p \in DOMAIN ch : n \in Range(ch[p])
  ELSE NullNode

\* node.firstChild, node.nextSibling
FirstChild(ch, n) == IF ch[n] = <<>> THEN NullNode ELSE ch[n][1]

NextSibling(ch, n) ==
  LET p == Parent(ch, n)
  IN  IF p = NullNode THEN NullNode
      ELSE LET i == IndexOf(ch[p], n)
           IN  IF i = Len(ch[p]) THEN NullNode ELSE ch[p][i + 1]

RECURSIVE IsInclusiveAncestor(_, _, _)
IsInclusiveAncestor(ch, a, n) ==
  \/ a = n
  \/ /\ Parent(ch, n) # NullNode
     /\ IsInclusiveAncestor(ch, a, Parent(ch, n))

HasElementChild(nd, ch, p) ==
  \E i \in 1..Len(ch[p]) : nd[ch[p][i]].kind = "element"

\* the host's "ensure pre-insertion validity" of parent.insertBefore(n, child)
PreInsertValid(nd, ch, parent, n, child) ==
  /\ parent # NullNode
  /\ nd[parent].kind \in {"document", "fragment", "element"}
  /\ ~IsInclusiveAncestor(ch, n, parent)
  /\ child # NullNode => Parent(ch, child) = parent
  /\ nd[n].kind \in {"fragment", "element", "text"}
  /\ nd[parent].kind = "document" =>
       CASE nd[n].kind = "text" -> FALSE
         [] nd[n].kind = "element" -> ~HasElementChild(nd, ch, parent)
         [] OTHER ->
              /\ \A i \in 1..Len(ch[n]) : nd[ch[n][i]].kind # "text"
              /\ Cardinality({i \in 1..Len(ch[n]) :
                                nd[ch[n][i]].kind = "element"}) <= 1
              /\ HasElementChild(nd, ch, n) => ~HasElementChild(nd, ch, parent)

\* the nodes a call to insertBefore / appendChild links into the parent
Inserted(nd, ch, n) == IF nd[n].kind = "fragment" THEN ch[n] ELSE <<n>>

\* the host's parent.insertBefore(n, child) on a valid call: n (or, for a
\* fragment, its children) leaves its old place and is linked before child
InsertBefore(nd, ch, parent, n, child) ==
  LET ref == IF child = n THEN NextSibling(ch, n) ELSE child
      nodes == Inserted(nd, ch, n)
      base == [p \in DOMAIN ch |->
                 SelectSeq(ch[p], LAMBDA c : c \notin Range(nodes))]
      seq == base[parent]
      i == IF ref = NullNode THEN Len(seq) + 1 ELSE IndexOf(seq, ref)
  IN  [base EXCEPT ![parent] =
         SubSeq(seq, 1, i - 1) \o nodes \o SubSeq(seq, i, Len(seq))]

\* parent.appendChild(n)
AppendChild(nd, ch, parent, n) == InsertBefore(nd, ch, parent, n, NullNode)

\* ---- markup and the host's parser ----
\* a markup string is a run of element sources; the parser makes one
\* element node per source, in source order
ElementSources == {"<p id=\"x\"></p>", "<p id=\"y\"></p>"}

Markups ==
  {<<"<p id=\"x\"></p>">>, <<"<p id=\"x\"></p>", "<p id=\"y\"></p>">>}

ParseElement(source) ==
  CASE source = "<p id=\"x\"></p>" -> [kind |-> "element", tag |-> "p", id |-> "x"]
    [] source = "<p id=\"y\"></p>" -> [kind |-> "element", tag |-> "p", id |-> "y"]

Parse(html) == [i \in 1..Len(html) |-> ParseElement(html[i])]

\* the first k nodes not yet created, in creation order
FreeNames(nd) ==
  SelectSeq(FreshNames, LAMBDA n : n \in DOMAIN nd /\ nd[n].kind = "free")

CanCreate(nd, k) == Len(FreeNames(nd)) >= k

Create(nd, descs) ==
  LET names == SubSeq(FreeNames(nd), 1, Len(descs))
  IN  [n \in DOMAIN nd |->
         IF n \in Range(names) THEN descs[IndexOf(names, n)] ELSE nd[n]]

Created(nd, k) == SubSeq(FreeNames(nd), 1, k)

\* The host's element.insertAdjacentHTML(position, html): whether it is
\* accepted, and the children afterwards (the parsed nodes are the nodes
\* Created(nd, Len(html)), linked at the position).
AdjacentValid(nd, ch, el, position) ==
  /\ nd[el].kind = "element"
  /\ position \in {"beforebegin", "afterend"} =>
       /\ Parent(ch, el) # NullNode
       /\ nd[Parent(ch, el)].kind # "document"

InsertAdjacent(nd, ch, el, position, html) ==
  LET nodes == Created(nd, Len(html))
      parent == IF position \in {"beforebegin", "afterend"}
                THEN Parent(ch, el) ELSE el
      seq == ch[parent]
      i == CASE position = "beforebegin" -> IndexOf(seq, el)
             [] position = "afterbegin" -> 1
             [] position = "beforeend" -> Len(seq) + 1
             [] position = "afterend" -> IndexOf(seq, el) + 1
  IN  [ch EXCEPT ![parent] =
         SubSeq(seq, 1, i - 1) \o nodes \o SubSeq(seq, i, Len(seq))]

\* ---------------------------------------------------------------------
\* Tree mutation and traversal helpers
\* ---------------------------------------------------------------------
\* what a helper leaves behind: the tree, and whether the host raised
Ok(nd, ch) == [threw |-> FALSE, node |-> nd, children |-> ch]
Throw(nd, ch) == [threw |-> TRUE, node |-> nd, children |-> ch]

\* the second argument of append / prepend / after: a node or a string
NodeArg(n) == [type |-> "node", node |-> n, html |-> <<>>]
HtmlArg(html) == [type |-> "html", node |-> NullNode, html |-> html]

isString(x) == x.type = "html"

\* parent.insertAdjacentHTML(position, html), as the helpers call it
adjacentHTML(nd, ch, el, position, html) ==
  IF AdjacentValid(nd, ch, el, position)
  THEN Ok(Create(nd, Parse(html)), InsertAdjacent(nd, ch, el, position, html))
  ELSE Throw(nd, ch)

\* parent.insertBefore(n, child) / parent.appendChild(n), as called
insertBefore(nd, ch, parent, n, child) ==
  IF PreInsertValid(nd, ch, parent, n, child)
  THEN Ok(nd, InsertBefore(nd, ch, parent, n, child))
  ELSE Throw(nd, ch)

appendChild(nd, ch, parent, n) == insertBefore(nd, ch, parent, n, NullNode)

\* append linking the node in front of the first child
append_first(nd, ch, parent, x) ==
  IF isString(x) THEN adjacentHTML(nd, ch, parent, "afterbegin", x.html)
  ELSE insertBefore(nd, ch, parent, x.node, FirstChild(ch, parent))

append(nd, ch, parent, x) ==
  IF isString(x) THEN adjacentHTML(nd, ch, parent, "beforeend", x.html)
  ELSE appendChild(nd, ch, parent, x.node)

\* prepend without the first-child branch: the node is always appended
prepend_appendOnly(nd, ch, parent, x) ==
  IF isString(x) THEN adjacentHTML(nd, ch, parent, "afterbegin", x.html)
  ELSE appendChild(nd, ch, parent, x.node)

prepend(nd, ch, parent, x) ==
  IF isString(x) THEN adjacentHTML(nd, ch, parent, "afterbegin", x.html)
  ELSE LET first == FirstChild(ch, parent)
       IN  IF first # NullNode
           THEN insertBefore(nd, ch, parent, x.node, first)
           ELSE appendChild(nd, ch, parent, x.node)

\* after linking the node before the target instead of before its sibling
after_beforeTarget(nd, ch, target, x) ==
  IF isString(x) THEN adjacentHTML(nd, ch, target, "afterend", x.html)
  ELSE insertBefore(nd, ch, Parent(ch, target), x.node, target)

after(nd, ch, target, x) ==
  IF isString(x) THEN adjacentHTML(nd, ch, target, "afterend", x.html)
  ELSE LET parent == Parent(ch, target)
           next == NextSibling(ch, target)
       IN  IF next # NullNode
           THEN insertBefore(nd, ch, parent, x.node, next)
           ELSE appendChild(nd, ch, parent, x.node)

\* the host's parent.removeChild(node), node being a child of parent
RemoveChild(ch, parent, n) ==
  [ch EXCEPT ![parent] = SelectSeq(ch[parent], LAMBDA c : c # n)]

\* remove that never detaches
remove_keep(nd, ch, n) == Ok(nd, ch)

\* remove(node), node a node
remove(nd, ch, n) ==
  LET parent == Parent(ch, n)
  IN  IF parent # NullNode THEN Ok(nd, RemoveChild(ch, parent, n))
      ELSE Ok(nd, ch)

\* ---- selectors ----
Selectors == {"div", "p"}

\* the host's selector matching on an element
SelectorMatches(desc, selector) == desc.tag = selector

\* the matching methods dom.matches looks for, in the order of its || chain
Capabilities ==
  <<"matches", "matchesSelector", "webkitMatchesSelector",
    "mozMatchesSelector", "msMatchesSelector", "oMatchesSelector">>

\* a method an object has (it answers TRUE for the selectors it accepts),
\* and a method it does not have
Method(accepts) == [exposed |-> TRUE, accepts |-> accepts]
Absent == [exposed |-> FALSE, accepts |-> {}]

\* element.matches || element.matchesSelector || ... : the position of the
\* first method the object has, 0 when it has none
RECURSIVE FirstExposed(_, _)
FirstExposed(methods, i) ==
  IF i > Len(Capabilities) THEN 0
  ELSE IF methods[Capabilities[i]].exposed THEN i
  ELSE FirstExposed(methods, i + 1)

\* the chain read from the last method to the first
RECURSIVE LastExposed(_, _)
LastExposed(methods, i) ==
  IF i > Len(Capabilities) THEN 0
  ELSE LET later == LastExposed(methods, i + 1)
       IN  IF later # 0 THEN later
           ELSE IF methods[Capabilities[i]].exposed THEN i ELSE 0

matchesOn_lastExposed(methods, selector) ==
  LET i == LastExposed(methods, 1)
  IN  IF i = 0 THEN [threw |-> TRUE, value |-> FALSE, by |-> "none"]
      ELSE [threw |-> FALSE,
            value |-> selector \in methods[Capabilities[i]].accepts,
            by |-> Capabilities[i]]

\* the body of dom.matches on an object with the given methods:
\* [threw, value, by], by = the method that was called
matchesOn(methods, selector) ==
  LET i == FirstExposed(methods, 1)
  IN  IF i = 0 THEN [threw |-> TRUE, value |-> FALSE, by |-> "none"]
      ELSE [threw |-> FALSE,
            value |-> selector \in methods[Capabilities[i]].accepts,
            by |-> Capabilities[i]]

\* only elements expose a matches capability
HasMatches(nd, n) == nd[n].kind = "element"

\* the methods of a node of the tree: an element has the standard one
Methods(nd, n) ==
  [c \in Range(Capabilities) |->
     IF HasMatches(nd, n) /\ c = "matches"
     THEN Method({s \in Selectors : SelectorMatches(nd[n], s)})
     ELSE Absent]

\* dom.matches(element, selector) on a node of the tree: [threw, value, by]
matches(nd, element, selector) ==
  matchesOn(Methods(nd, element), selector)

\* the host's element.closest(selector)
RECURSIVE HostClosest(_, _, _, _)
HostClosest(nd, ch, n, selector) ==
  IF n = NullNode THEN NullNode
  ELSE IF nd[n].kind = "element" /\ SelectorMatches(nd[n], selector) THEN n
  ELSE HostClosest(nd, ch, Parent(ch, n), selector)

\* the while loop of closest: [threw, result]
RECURSIVE ClosestWalk(_, _, _, _)
ClosestWalk(nd, ch, element, selector) ==
  IF element = NullNode THEN [threw |-> FALSE, result |-> NullNode]
  ELSE LET m == matches(nd, element, selector)
       IN  IF m.threw THEN [threw |-> TRUE, result |-> NullNode]
           ELSE IF m.value THEN [threw |-> FALSE, result |-> element]
           ELSE ClosestWalk(nd, ch, Parent(ch, element), selector)

\* closest whose loop starts at the parent, the element itself unchecked
closest_parentFirst(nd, ch, native, element, selector) ==
  IF native
  THEN [threw |-> FALSE, result |-> HostClosest(nd, ch, element, selector)]
  ELSE ClosestWalk(nd, ch, Parent(ch, element), selector)

closest(nd, ch, native, element, selector) ==
  IF native
  THEN [threw |-> FALSE, result |-> HostClosest(nd, ch, element, selector)]
  ELSE ClosestWalk(nd, ch, element, selector)

\* ---- the calls ----
NoTreeCall ==
  [op |-> "none", target |-> NullNode, nodes |-> <<>>, rest |-> <<>>,
   html |-> <<>>, edge |-> FALSE, run |-> <<>>, selector |-> "",
   native |-> FALSE, result |-> NullNode, threw |-> FALSE, fresh |-> FALSE]

\* the nodes a call links in: the node passed (a fragment: its children),
\* or the nodes about to be parsed from the markup passed
Linked(nd, ch, x) ==
  IF isString(x) THEN Created(nd, Len(x.html)) ELSE Inserted(nd, ch, x.node)

\* the children of parent other than the nodes a call links in
Rest(ch, parent, nodes) ==
  IF parent = NullNode THEN <<>>
  ELSE SelectSeq(ch[parent], LAMBDA c : c \notin Range(nodes))

\* the record of a mutation made on parent (for after: the target's parent)
Mutation(op, target, parent, x, edge, r) ==
  [NoTreeCall EXCEPT
     !.op = op, !.target = target, !.html = x.html,
     !.nodes = IF r.threw THEN <<>> ELSE Linked(node, children, x),
     !.rest = IF r.threw THEN <<>>
              ELSE Rest(children, parent, Linked(node, children, x)),
     !.edge = edge, !.threw = r.threw]

IsCreated(n) == node[n].kind # "free"

\* the second arguments the calls are made with
Args ==
  {NodeArg(n) : n \in {m \in Node \ {Doc} : IsCreated(m)}}
  \cup {HtmlArg(html) : html \in {h \in Markups : CanCreate(node, Len(h))}}

TreeStart ==
  /\ node = [n \in Node |->
       CASE n = Doc -> [kind |-> "document", tag |-> "", id |-> ""]
         [] n = "root" -> [kind |-> "element", tag |-> "div", id |-> ""]
         [] n = "a" -> [kind |-> "element", tag |-> "p", id |-> ""]
         [] OTHER -> FreeNode]
  /\ children = [n \in Node |-> IF n = Doc THEN <<"root">> ELSE <<>>]
  /\ fragmentNative = TRUE
  /\ docRange = NullNode
  /\ nodeFactory = NullNode
  /\ treeCall = NoTreeCall

TreeIdle ==
  /\ node = [n \in Node |-> FreeNode]
  /\ children = [n \in Node |-> <<>>]
  /\ fragmentNative = TRUE
  /\ docRange = NullNode
  /\ nodeFactory = NullNode
  /\ treeCall = NoTreeCall

\* The nodes linked in by the run of append calls that ends with this one:
\* successive calls that returned, on one parent, with distinct nodes.
AppendRun(parent, nodes) ==
  IF /\ treeCall.op = "append" /\ ~treeCall.threw
     /\ treeCall.target = parent
     /\ Range(treeCall.run) \cap Range(nodes) = {}
  THEN treeCall.run \o nodes
  ELSE nodes

CallAppend(parent, x) ==
  LET r == append(node, children, parent, x)
      m == Mutation("append", parent, parent, x, FALSE, r)
  IN  /\ node' = r.node
      /\ children' = r.children
      /\ treeCall' = [m EXCEPT !.run = AppendRun(parent, m.nodes)]
      /\ UNCHANGED <<fragmentNative, docRange, nodeFactory, exceptTree>>

CallPrepend(parent, x) ==
  LET r == prepend(node, children, parent, x)
  IN  /\ node' = r.node
      /\ children' = r.children
      /\ treeCall' = Mutation("prepend", parent, parent, x,
                              children[parent] = <<>>, r)
      /\ UNCHANGED <<fragmentNative, docRange, nodeFactory, exceptTree>>

CallAfter(target, x) ==
  LET r == after(node, children, target, x)
  IN  /\ node' = r.node
      /\ children' = r.children
      /\ treeCall' = Mutation("after", target, Parent(children, target), x,
                              NextSibling(children, target) = NullNode, r)
      /\ UNCHANGED <<fragmentNative, docRange, nodeFactory, exceptTree>>

\* remove(node); edge: node had a parent, rest: the parent's other children
CallRemove(n) ==
  LET r == remove(node, children, n)
  IN  /\ node' = r.node
      /\ children' = r.children
      /\ treeCall' = [NoTreeCall EXCEPT
                        !.op = "remove", !.target = n, !.result = n,
                        !.edge = Parent(children, n) # NullNode,
                        !.rest = Rest(children, Parent(children, n), <<n>>),
                        !.threw = r.threw]
      /\ UNCHANGED <<fragmentNative, docRange, nodeFactory, exceptTree>>

\* closest(element, selector) on an element that has a closest method of
\* its own (native) or has none
CallClosest(element, selector, native) ==
  LET r == closest(node, children, native, element, selector)
  IN  /\ treeCall' = [NoTreeCall EXCEPT
                        !.op = "closest", !.target = element,
                        !.selector = selector, !.native = native,
                        !.result = r.result, !.threw = r.threw]
      /\ UNCHANGED <<node, children, fragmentNative, docRange, nodeFactory,
                     exceptTree>>

NextTree ==
  \/ \E parent \in Elements, x \in Args : CallAppend(parent, x)
  \/ \E parent \in Elements, x \in Args : CallPrepend(parent, x)
  \/ \E target \in {n \in Node \ {Doc} : IsCreated(n)}, x \in Args :
       CallAfter(target, x)
  \/ \E element \in {n \in Node \ {Doc} : IsCreated(n)},
        selector \in Selectors, native \in BOOLEAN :
       CallClosest(element, selector, native)

\* building trees by append and taking them apart by remove
NextDetach ==
  \/ \E parent \in Elements, x \in Args : CallAppend(parent, x)
  \/ \E n \in {m \in Node : IsCreated(m)} : CallRemove(n)

\* ---------------------------------------------------------------------
\* Fragment creation
\* ---------------------------------------------------------------------
\* the markup strings passed to fragment (<<>>: no argument, or '')
Templates == ListsUpTo(ElementSources, MaxNames)

NewFragment == [kind |-> "fragment", tag |-> "", id |-> ""]
NewDiv == [kind |-> "element", tag |-> "div", id |-> ""]

\* what createFragment works on and leaves behind
Facade(nd, ch, range, factory) ==
  [node |-> nd, children |-> ch, docRange |-> range, nodeFactory |-> factory,
   result |-> NullNode]

\* document.createDocumentFragment() / dom.element('div')
CreateNode(f, desc) ==
  [f EXCEPT !.node = Create(f.node, <<desc>>),
            !.result = Created(f.node, 1)[1]]

\* getRange(): the cached range, made by dom.range() on first use
getRange(f) ==
  IF f.docRange = NullNode THEN [f EXCEPT !.docRange = "range"] ELSE f

\* getNodeFactory(): the cached element, made on first use
getNodeFactory(f) ==
  IF f.nodeFactory = NullNode
  THEN LET g == CreateNode(f, NewDiv) IN [g EXCEPT !.nodeFactory = g.result]
  ELSE f

\* the host's range.createContextualFragment(html): a new fragment holding
\* the parsed nodes
ContextualFragment(f, html) ==
  LET g == CreateNode(f, NewFragment)
      nodes == Created(g.node, Len(html))
  IN  [g EXCEPT !.node = Create(g.node, Parse(html)),
                !.children = [g.children EXCEPT ![g.result] = nodes]]

\* the host's factory.innerHTML = html: the parsed nodes replace the children
SetInnerHTML(f, el, html) ==
  [f EXCEPT !.node = Create(f.node, Parse(html)),
            !.children = [f.children EXCEPT ![el] = Created(f.node, Len(html))]]

\* the loop body run once only
Drain_once(nd, ch, factory, fragment) ==
  IF FirstChild(ch, factory) = NullNode THEN ch
  ELSE AppendChild(nd, ch, fragment, FirstChild(ch, factory))

\* while (factory.firstChild) fragment.appendChild(factory.firstChild)
RECURSIVE Drain(_, _, _, _)
Drain(nd, ch, factory, fragment) ==
  IF FirstChild(ch, factory) = NullNode THEN ch
  ELSE Drain(nd, AppendChild(nd, ch, fragment, FirstChild(ch, factory)),
             factory, fragment)

\* the loop taking the last child of the scratch element instead
RECURSIVE Drain_lastChild(_, _, _, _)
Drain_lastChild(nd, ch, factory, fragment) ==
  IF FirstChild(ch, factory) = NullNode THEN ch
  ELSE Drain_lastChild(nd,
         AppendChild(nd, ch, fragment, ch[factory][Len(ch[factory])]),
         factory, fragment)

createFragment_lastChild(f, native, html) ==
  IF html = <<>> THEN CreateNode(f, NewFragment)
  ELSE LET r == getRange(f)
       IN  IF native THEN ContextualFragment(r, html)
           ELSE LET g == CreateNode(r, NewFragment)
                    h == SetInnerHTML(getNodeFactory(g), getNodeFactory(g).nodeFactory, html)
                IN  [h EXCEPT !.children = Drain_lastChild(h.node, h.children,
                                                 h.nodeFactory, g.result),
                              !.result = g.result]

\* createFragment(html), native: the cached range has createContextualFragment
createFragment(f, native, html) ==
  IF html = <<>> THEN CreateNode(f, NewFragment)
  ELSE LET r == getRange(f)
       IN  IF native THEN ContextualFragment(r, html)
           ELSE LET g == CreateNode(r, NewFragment)
                    h == SetInnerHTML(getNodeFactory(g), getNodeFactory(g).nodeFactory, html)
                IN  [h EXCEPT !.children = Drain(h.node, h.children,
                                                 h.nodeFactory, g.result),
                              !.result = g.result]

\* fragment(template) for no template or a markup string
fragment(f, native, template) == createFragment(f, native, template)

\* the nodes a createFragment(html) call creates
Needed(native, factory, html) ==
  Len(html) + Len(<<"fragment">>)
    + Len(IF html # <<>> /\ ~native /\ factory = NullNode
          THEN <<"factory">> ELSE <<>>)

FragmentStart ==
  /\ node = [n \in FragmentNode |->
       IF n = Doc THEN [kind |-> "document", tag |-> "", id |-> ""]
       ELSE FreeNode]
  /\ children = [n \in FragmentNode |-> <<>>]
  /\ fragmentNative \in BOOLEAN
  /\ docRange = NullNode
  /\ nodeFactory = NullNode
  /\ treeCall = NoTreeCall

CallFragment(template) ==
  /\ CanCreate(node, Needed(fragmentNative, nodeFactory, template))
  /\ LET f == fragment(Facade(node, children, docRange, nodeFactory),
                       fragmentNative, template)
     IN  /\ node' = f.node
         /\ children' = f.children
         /\ docRange' = f.docRange
         /\ nodeFactory' = f.nodeFactory
         /\ treeCall' = [NoTreeCall EXCEPT
                           !.op = "fragment", !.html = template,
                           !.result = f.result,
                           !.fresh = ~IsCreated(f.result)]
  /\ UNCHANGED <<fragmentNative, exceptTree>>

NextFragment == \E template \in Templates : CallFragment(template)

\* ---------------------------------------------------------------------
\* fragment(template) for a template that is not a string
\* ---------------------------------------------------------------------
\* the nodes the caller holds: root (a div) with children k1, k2, k1 with
\* child g1; tpl, a template element whose content is the fragment tc
\* holding k4; f1, a fragment holding k3
CopySources == {"root", "k1", "k2", "g1", "tpl", "tc", "k4", "f1", "k3"}

CopyNode ==
  {Doc} \cup CopySources \cup {FreshNames[i] : i \in 1..MaxCreated}

NoContent == "undefined"

\* the host's element.content: the contents of a template element, and
\* undefined on any other element
content(nd, n) == IF nd[n].tag = "template" THEN "tc" ELSE NoContent

\* dom.isElement(node) / dom.isFragment(node) on a node, an array (no
\* nodeType) or undefined (reading nodeType throws): [threw, value]
isElement(nd, x) ==
  [threw |-> FALSE, value |-> x.form = "node" /\ nd[x.node].kind = "element"]

isFragment(nd, x) ==
  IF x.form = "node" /\ x.node = NoContent
  THEN [threw |-> TRUE, value |-> FALSE]
  ELSE [threw |-> FALSE,
        value |-> x.form = "node" /\ nd[x.node].kind = "fragment"]

\* the number of nodes of the subtree of n
RECURSIVE Size(_, _)
RECURSIVE SizeAll(_, _)
Size(ch, n) == 1 + SizeAll(ch, ch[n])
SizeAll(ch, nodes) ==
  IF nodes = <<>> THEN 0 ELSE Size(ch, Head(nodes)) + SizeAll(ch, Tail(nodes))

\* the host's node.cloneNode(true) / document.importNode(node, true): the
\* copy is a new node with copies of the children, and has no parent
RECURSIVE cloneNode(_, _)
RECURSIVE CloneInto(_, _, _)
cloneNode(f, n) ==
  LET g == CreateNode(f, f.node[n])
  IN  [CloneInto(g, g.result, f.children[n]) EXCEPT !.result = g.result]

CloneInto(f, copy, kids) ==
  IF kids = <<>> THEN f
  ELSE LET g == cloneNode(f, Head(kids))
       IN  CloneInto([g EXCEPT !.children[copy] = Append(@, g.result)],
                     copy, Tail(kids))

\* nodes.forEach((node) => docFragment.appendChild(node.cloneNode(true)))
RECURSIVE AppendClones(_, _, _)
AppendClones(f, docFragment, nodes) ==
  IF nodes = <<>> THEN f
  ELSE LET g == cloneNode(f, Head(nodes))
       IN  AppendClones(
             [g EXCEPT !.children = AppendChild(g.node, g.children,
                                                docFragment, g.result)],
             docFragment, Tail(nodes))

NodeTemplate(n) == [form |-> "node", node |-> n, nodes |-> <<>>]
ArrayTemplate(nodes) == [form |-> "array", node |-> NullNode, nodes |-> nodes]

Returned(f) == [threw |-> FALSE, facade |-> f]
Thrown(f) == [threw |-> TRUE, facade |-> f]

\* createFragment() followed by the forEach over nodes
FragmentOfClones(f, native, nodes) ==
  LET g == createFragment(f, native, <<>>)
  IN  Returned([AppendClones(g, g.result, nodes) EXCEPT !.result = g.result])

\* fragment(template), template an element, a fragment or an array of
\* nodes: [threw, facade]
fragmentOf(f, native, template) ==
  IF isElement(f.node, template).value
  THEN LET c == NodeTemplate(content(f.node, template.node))
       IN  IF isFragment(f.node, c).threw THEN Thrown(f)
           ELSE IF isFragment(f.node, c).value
           THEN Returned(cloneNode(f, c.node))
           ELSE FragmentOfClones(f, native, f.children[template.node])
  ELSE IF isFragment(f.node, template).value
  THEN Returned(cloneNode(f, template.node))
  ELSE FragmentOfClones(f, native, template.nodes)

\* the templates the calls are made with
CopyTemplates ==
  {NodeTemplate(n) : n \in {"root", "k1", "k2", "tpl", "f1"}}
  \cup {ArrayTemplate(a) :
          a \in {l \in ListsUpTo({"k1", "k2", "g1"}, MaxNames) : l # <<>>}}

\* the source nodes of a template: the nodes whose copies the fragment is
\* to hold
Sources(ch, template) ==
  IF template.form = "array" THEN template.nodes
  ELSE IF template.node = "tpl" THEN ch["tc"]
  ELSE ch[template.node]

\* the nodes a call creates when it returns
CopyNeeded(ch, template) == 1 + SizeAll(ch, Sources(ch, template))

CopyStart ==
  /\ node = [n \in CopyNode |->
       CASE n = Doc -> [kind |-> "document", tag |-> "", id |-> ""]
         [] n = "root" -> [kind |-> "element", tag |-> "div", id |-> ""]
         [] n = "tpl" -> [kind |-> "element", tag |-> "template", id |-> ""]
         [] n \in {"tc", "f1"} -> [kind |-> "fragment", tag |-> "", id |-> ""]
         [] n \in {"k1", "k3"} -> [kind |-> "element", tag |-> "p", id |-> "x"]
         [] n \in {"k2", "k4"} -> [kind |-> "element", tag |-> "p", id |-> "y"]
         [] n = "g1" -> [kind |-> "text", tag |-> "", id |-> ""]
         [] OTHER -> FreeNode]
  /\ children = [n \in CopyNode |->
       CASE n = Doc -> <<"root">>
         [] n = "root" -> <<"k1", "k2">>
         [] n = "k1" -> <<"g1">>
         [] n = "tc" -> <<"k4">>
         [] n = "f1" -> <<"k3">>
         [] OTHER -> <<>>]
  /\ fragmentNative \in BOOLEAN
  /\ docRange = NullNode
  /\ nodeFactory = NullNode
  /\ treeCall = NoTreeCall

\* fragment(template); nodes: the sources, run: the parent of each before
\* the call, rest: the children of those parents before the call
CallFragmentOf(template) ==
  /\ CanCreate(node, CopyNeeded(children, template))
  /\ LET r == fragmentOf(Facade(node, children, docRange, nodeFactory),
                         fragmentNative, template)
         sources == Sources(children, template)
         parents == [i \in 1..Len(sources) |-> Parent(children, sources[i])]
     IN  /\ node' = r.facade.node
         /\ children' = r.facade.children
         /\ docRange' = r.facade.docRange
         /\ nodeFactory' = r.facade.nodeFactory
         /\ treeCall' = [NoTreeCall EXCEPT
              !.op = "fragmentOf", !.target = template.node,
              !.nodes = sources, !.run = parents,
              !.rest = [i \in 1..Len(sources) |->
                          IF parents[i] = NullNode THEN <<>>
                          ELSE children[parents[i]]],
              !.threw = r.threw,
              !.result = IF r.threw THEN NullNode ELSE r.facade.result,
              !.fresh = ~r.threw /\ ~IsCreated(r.facade.result)]
  /\ UNCHANGED <<fragmentNative, exceptTree>>

NextCopy == \E template \in CopyTemplates : CallFragmentOf(template)

\* ---------------------------------------------------------------------
\* Event construction.  Strings are sequences of pieces here, so that
\* type += 'Event' and 'init' + type are concatenations.
\* ---------------------------------------------------------------------
\* the fields event() reads from config
Fields ==
  {"view", "detail", "key", "location", "ctrlKey", "altKey", "shiftKey",
   "metaKey", "repeat", "screenX", "screenY", "clientX", "clientY",
   "button", "relatedTarget", "deltaX", "deltaY", "deltaZ", "deltaMode",
   "bubbles", "cancelable"}

\* an object with the given fields; reading any other field is undefined
Object(fields) ==
  [f \in Fields |-> IF f \in DOMAIN fields THEN fields[f] ELSE Undefined]

EmptyObject == [f \in Fields |-> Undefined]

\* the third argument of a call: left out, or an object
Omitted == [given |-> FALSE, object |-> EmptyObject]
Given(fields) == [given |-> TRUE, object |-> Object(fields)]

Falsy(v) == v \in {Undefined, Null, Bool(FALSE), Num(0), Str(<<>>)}

\* a || b
Or(a, b) == IF Falsy(a) THEN b ELSE a

ToBoolean(v) == ~Falsy(v)

\* getEventModifiers(config)
getEventModifiers(config) ==
  LET modifiers ==
        (IF ToBoolean(config["ctrlKey"]) THEN <<<<"Control">>>> ELSE <<>>)
        \o (IF ToBoolean(config["altKey"]) THEN <<<<"Alt">>>> ELSE <<>>)
        \o (IF ToBoolean(config["shiftKey"]) THEN <<<<"Shift">>>> ELSE <<>>)
        \o (IF ToBoolean(config["metaKey"]) THEN <<<<"Meta">>>> ELSE <<>>)
  IN  Str(Join(modifiers))

Switched(type, args) == [known |-> TRUE, type |-> type, args |-> args]

\* the switch with the wheel case constructing a mouse event
Switch_wheelAsMouse(type, config) ==
  CASE type = <<"event">> -> Switched(<<>>, <<>>)
    [] type = <<"ui">> -> Switched(<<"UI">>, <<>>)
    [] type = <<"keyboard">> -> Switched(<<"Keyboard">>, <<>>)
    [] type \in {<<"mouse">>, <<"wheel">>} -> Switched(<<"Mouse">>, <<>>)
    [] type = <<"focus">> -> Switched(<<"Focus">>, <<>>)
    [] type = <<"custom">> -> Switched(<<"Custom">>, <<>>)
    [] OTHER -> [known |-> FALSE, type |-> type, args |-> <<>>]

\* switch (type): the constructor's name without 'Event', and the
\* arguments of the init call after name, bubbles and cancelable
Switch(type, config) ==
  CASE type = <<"event">> -> Switched(<<>>, <<>>)
    [] type = <<"ui">> ->
         Switched(<<"UI">>,
           <<Or(config["view"], Null), Or(config["detail"], Num(0))>>)
    [] type = <<"keyboard">> ->
         Switched(<<"Keyboard">>,
           <<Or(config["view"], Null), Or(config["key"], Str(<<>>)),
             Or(config["location"], Num(0)), getEventModifiers(config),
             Or(config["repeat"], Bool(FALSE)), Str(<<>>)>>)
    [] type = <<"mouse">> ->
         Switched(<<"Mouse">>,
           <<Or(config["view"], Null), Or(config["detail"], Num(0)),
             Or(config["screenX"], Num(0)), Or(config["screenY"], Num(0)),
             Or(config["clientX"], Num(0)), Or(config["clientY"], Num(0)),
             Or(config["ctrlKey"], Bool(FALSE)),
             Or(config["altKey"], Bool(FALSE)),
             Or(config["shiftKey"], Bool(FALSE)),
             Or(config["metaKey"], Bool(FALSE)),
             Or(config["button"], Num(0)),
             Or(config["relatedTarget"], Null)>>)
    [] type = <<"wheel">> ->
         Switched(<<"Wheel">>,
           <<Or(config["view"], Null), Or(config["detail"], Num(0)),
             Or(config["screenX"], Num(0)), Or(config["screenY"], Num(0)),
             Or(config["clientX"], Num(0)), Or(config["clientY"], Num(0)),
             Or(config["button"], Num(0)),
             Or(config["relatedTarget"], Null),
             getEventModifiers(config),
             Or(config["deltaX"], Num(0)), Or(config["deltaY"], Num(0)),
             Or(config["deltaZ"], Num(0)), Or(config["deltaMode"], Num(0))>>)
    [] type = <<"focus">> ->
         Switched(<<"Focus">>,
           <<Or(config["view"], Null), Or(config["detail"], Num(0)),
             Or(config["relatedTarget"], Null)>>)
    [] type = <<"custom">> ->
         Switched(<<"Custom">>, <<Or(config["detail"], Null)>>)
    [] OTHER -> [known |-> FALSE, type |-> type, args |-> <<>>]

\* the event interfaces of the DOM
Interfaces ==
  {<<"Event">>, <<"UI", "Event">>, <<"Keyboard", "Event">>,
   <<"Mouse", "Event">>, <<"Wheel", "Event">>, <<"Focus", "Event">>,
   <<"Custom", "Event">>}

\* the interfaces every engine has had since the create-then-init days
Older == Interfaces \ {<<"Wheel", "Event">>, <<"Focus", "Event">>}

\* the hosts: modern = new window[type](...) returns an event (it throws
\* otherwise); create = document.createEvent(type) returns one; init = the
\* created event has the method 'init' + type
Engines ==
  {[modern |-> m, create |-> l[1], init |-> l[2]] :
     m \in {{}, Older, Interfaces},
     l \in {<<Interfaces, Interfaces>>, <<Interfaces, Older>>,
            <<Older, Older>>}}

NoEvent == [interface |-> <<>>, type |-> <<>>, fields |-> <<>>, form |-> <<>>]

\* what a call leaves: the value returned ("null" or "event"), or threw,
\* and the number of event objects the host created on the way
Outcome(returned, threw, created, ev) ==
  [returned |-> returned, threw |-> threw, created |-> created, event |-> ev]

\* ---- the host's event interfaces ----
EventFields == {"bubbles", "cancelable"}
UIFields == EventFields \cup {"view", "detail"}
ModifierFields == {"ctrlKey", "altKey", "shiftKey", "metaKey"}
MouseFields ==
  UIFields \cup ModifierFields
    \cup {"screenX", "screenY", "clientX", "clientY", "button",
          "relatedTarget"}

\* the attributes of an event of the interface, beside its type
InterfaceFields(interface) ==
  CASE interface = <<"Event">> -> EventFields
    [] interface = <<"UI", "Event">> -> UIFields
    [] interface = <<"Keyboard", "Event">> ->
         UIFields \cup ModifierFields \cup {"key", "location", "repeat"}
    [] interface = <<"Mouse", "Event">> -> MouseFields
    [] interface = <<"Wheel", "Event">> ->
         MouseFields \cup {"deltaX", "deltaY", "deltaZ", "deltaMode"}
    [] interface = <<"Focus", "Event">> -> UIFields \cup {"relatedTarget"}
    [] interface = <<"Custom", "Event">> -> EventFields \cup {"detail"}

\* the type of an attribute: CustomEvent's detail is any value
FieldType(interface, f) ==
  IF f \in EventFields \cup ModifierFields \cup {"repeat"} THEN "boolean"
  ELSE IF f \in {"view", "relatedTarget"} THEN "object"
  ELSE IF f = "key" THEN "string"
  ELSE IF f = "detail" /\ interface = <<"Custom", "Event">> THEN "any"
  ELSE "number"

\* the value of an attribute nobody has set
Default(type) ==
  CASE type = "boolean" -> Bool(FALSE)
    [] type = "number" -> Num(0)
    [] type = "string" -> Str(<<>>)
    [] OTHER -> Null

\* the host converting a value it is handed to the attribute's type (for
\* values of that type; the booleans by truthiness)
Convert(type, v) ==
  IF v = Undefined THEN Default(type)
  ELSE IF type = "boolean" THEN Bool(ToBoolean(v))
  ELSE v

\* new window[type](name, config), where the engine has the constructor:
\* every attribute is read from the dictionary under its own name
Construct(type, name, config) ==
  [interface |-> type, type |-> name,
   fields |-> [f \in InterfaceFields(type) |->
                 Convert(FieldType(type, f), config[f])],
   form |-> <<"new">> \o type]

\* the parameters of the interface's init method after the type
InitParams(interface) ==
  CASE interface = <<"Event">> -> <<"bubbles", "cancelable">>
    [] interface = <<"UI", "Event">> ->
         <<"bubbles", "cancelable", "view", "detail">>
    [] interface = <<"Keyboard", "Event">> ->
         <<"bubbles", "cancelable", "view", "key", "location",
           "modifiersList", "repeat", "locale">>
    [] interface = <<"Mouse", "Event">> ->
         <<"bubbles", "cancelable", "view", "detail", "screenX", "screenY",
           "clientX", "clientY", "ctrlKey", "altKey", "shiftKey", "metaKey",
           "button", "relatedTarget">>
    [] interface = <<"Wheel", "Event">> ->
         <<"bubbles", "cancelable", "view", "detail", "screenX", "screenY",
           "clientX", "clientY", "button", "relatedTarget", "modifiersList",
           "deltaX", "deltaY", "deltaZ", "deltaMode">>
    [] interface = <<"Focus", "Event">> ->
         <<"bubbles", "cancelable", "view", "detail", "relatedTarget">>
    [] interface = <<"Custom", "Event">> ->
         <<"bubbles", "cancelable", "detail">>

\* the key name a modifier attribute stands for in a modifiers list
ModifierName(f) ==
  CASE f = "ctrlKey" -> "Control"
    [] f = "altKey" -> "Alt"
    [] f = "shiftKey" -> "Shift"
    [] f = "metaKey" -> "Meta"

\* the value the init call leaves in attribute f, given the arguments after
\* the type: the argument at the parameter of that name, for a modifier
\* its presence in the modifiers list, otherwise the attribute's default
Initialized(interface, f, values) ==
  LET params == InitParams(interface)
      at(p) == {i \in 1..Len(params) : params[i] = p}
      arg(p) == LET i == CHOOSE i \in at(p) : TRUE
                IN  IF i <= Len(values) THEN values[i] ELSE Undefined
  IN  IF at(f) # {} THEN Convert(FieldType(interface, f), arg(f))
      ELSE IF f \in ModifierFields /\ at("modifiersList") # {}
      THEN Bool(arg("modifiersList")[1] = "string"
                /\ ModifierName(f) \in Range(arg("modifiersList")[2]))
      ELSE Default(FieldType(interface, f))

\* document.createEvent(type) and event['init' + type].apply(event, ...)
CreateAndInit(type, name, config, args) ==
  LET all == <<name, Or(config["bubbles"], Bool(FALSE)),
               Or(config["cancelable"], Bool(FALSE))>> \o args
  IN  [interface |-> type, type |-> all[1],
       fields |-> [f \in InterfaceFields(type) |->
                     Initialized(type, f, Tail(all))],
       form |-> <<"init">> \o type]

\* event(type, name, config = {}) on the engine eng
event(eng, type, name, arg) ==
  LET config == IF arg.given THEN arg.object ELSE EmptyObject
      s == Switch(type, config)
      t == s.type \o <<"Event">>
  IN  IF ~s.known THEN Outcome("null", FALSE, 0, NoEvent)
      ELSE IF t \in eng.modern
      THEN Outcome("event", FALSE, 1, Construct(t, name, config))
      ELSE IF t \notin eng.create THEN Outcome("none", TRUE, 0, NoEvent)
      ELSE IF t \notin eng.init THEN Outcome("none", TRUE, 1, NoEvent)
      ELSE Outcome("event", FALSE, 1, CreateAndInit(t, name, config, s.args))

\* the kinds, names and configs the calls are made with
Kinds ==
  {<<"event">>, <<"ui">>, <<"keyboard">>, <<"mouse">>, <<"wheel">>,
   <<"focus">>, <<"custom">>,
   <<>>, <<"Event">>, <<"Mouse">>, <<"touch">>, <<"mouse", "Event">>}

EventNames == {<<"keydown">>, <<"my">>}

\* a window or an element
Obj == <<"object", "o">>

\* the values a config gives a field
FieldValues(f) ==
  IF f \in EventFields \cup ModifierFields \cup {"repeat"}
  THEN {Bool(TRUE), Bool(FALSE)}
  ELSE IF f \in {"view", "relatedTarget"} THEN {Null, Obj}
  ELSE IF f = "key" THEN {Str(<<>>), Str(<<"Enter">>)}
  ELSE {Num(0), Num(1)}

\* no config, a config with one field, and some with two
Configs ==
  {Omitted}
  \cup {Given(f :> v) : <<f, v>> \in {<<g, w>> \in Fields \X
         UNION {FieldValues(h) : h \in Fields} : w \in FieldValues(g)}}
  \cup {Given([key |-> Str(<<"Enter">>), ctrlKey |-> Bool(TRUE)]),
        Given([shiftKey |-> Bool(TRUE), metaKey |-> Bool(TRUE)]),
        Given([detail |-> Num(1), cancelable |-> Bool(TRUE)])}

NoEventCall ==
  [op |-> "none", type |-> <<>>, name |-> <<>>, config |-> Omitted,
   out |-> Outcome("none", FALSE, 0, NoEvent)]

NoEventArgs == [type |-> <<>>, name |-> <<>>, config |-> Omitted]

EventStart ==
  /\ engine \in Engines
  /\ eventArgs \in [type : Kinds, name : EventNames, config : Configs]
  /\ eventCall = NoEventCall

EventIdle ==
  /\ engine = [modern |-> Interfaces, create |-> Interfaces,
               init |-> Interfaces]
  /\ eventArgs = NoEventArgs
  /\ eventCall = NoEventCall

CallEvent ==
  /\ eventCall' = [op |-> "event", type |-> eventArgs.type,
                   name |-> eventArgs.name, config |-> eventArgs.config,
                   out |-> event(engine, eventArgs.type, eventArgs.name,
                                 eventArgs.config)]
  /\ UNCHANGED <<engine, eventArgs, exceptEvent>>

NextEvent == CallEvent

\* ---------------------------------------------------------------------
\* matches on elements of any engine
\* ---------------------------------------------------------------------
\* the elements matches is called on: each method present or not, and
\* answering as its engine made it (the methods need not agree)
MethodSets ==
  [Range(Capabilities) ->
     {Absent} \cup {Method(a) : a \in SUBSET Selectors}]

NoMatchCall ==
  [op |-> "none", selector |-> "",
   out |-> [threw |-> FALSE, value |-> FALSE, by |-> "none"]]

MatchStart ==
  /\ elementMethods \in MethodSets
  /\ matchCall = NoMatchCall

MatchIdle ==
  /\ elementMethods = [c \in Range(Capabilities) |-> Absent]
  /\ matchCall = NoMatchCall

CallMatches(selector) ==
  /\ matchCall' = [op |-> "matches", selector |-> selector,
                   out |-> matchesOn(elementMethods, selector)]
  /\ UNCHANGED <<elementMethods, exceptMatch>>

NextMatch == \E selector \in Selectors : CallMatches(selector)

\* ---------------------------------------------------------------------
\* ready(callback).  Each call is known by its number; its callback counts
\* its own invocations in runs.  The listener of call c is the closure
\* onDocumentReady made by that call.
\* ---------------------------------------------------------------------
ReadyCalls == 1..MaxReady

\* dom.on(document, eventName, listener): addEventListener(..., false)
on(ls, listener) == IF listener \in Range(ls) THEN ls ELSE Append(ls, listener)

\* dom.off(document, eventName, listener): removeEventListener(..., false)
off(ls, listener) == SelectSeq(ls, LAMBDA l : l # listener)

\* callback()
callback(rs, c) == [rs EXCEPT ![c] = @ + 1]

\* the listener that stays registered
onDocumentReady_keep(ls, rs, c) ==
  [listeners |-> ls, runs |-> callback(rs, c)]

\* function onDocumentReady() { dom.off(...); callback() }
onDocumentReady(ls, rs, c) ==
  [listeners |-> off(ls, c), runs |-> callback(rs, c)]

\* ready(callback), call number c: [listeners, timers] when it returns
ready(state, ls, ts, c) ==
  IF state # "loading"
  THEN [listeners |-> ls, timers |-> ts \cup {c}]
  ELSE [listeners |-> on(ls, c), timers |-> ts]

\* the host dispatching DOMContentLoaded on the document: the listeners
\* registered when the dispatch starts are invoked in order, one that has
\* been removed in the meantime is skipped
RECURSIVE Dispatch(_, _, _)
Dispatch(snapshot, ls, rs) ==
  IF snapshot = <<>> THEN [listeners |-> ls, runs |-> rs]
  ELSE IF Head(snapshot) \notin Range(ls)
  THEN Dispatch(Tail(snapshot), ls, rs)
  ELSE LET r == onDocumentReady(ls, rs, Head(snapshot))
       IN  Dispatch(Tail(snapshot), r.listeners, r.runs)

ReadyStart ==
  /\ readyState \in {"loading", "interactive", "complete"}
  /\ listeners = <<>>
  /\ timers = {}
  /\ called = {}
  /\ runs = [c \in ReadyCalls |-> 0]
  /\ notified = [host |-> readyState = "complete", script |-> 0]

ReadyIdle ==
  /\ readyState = "complete"
  /\ listeners = <<>>
  /\ timers = {}
  /\ called = {}
  /\ runs = [c \in ReadyCalls |-> 0]
  /\ notified = [host |-> TRUE, script |-> 0]

\* a script calls ready(callback)
CallReady(c) ==
  /\ c \notin called /\ \A b \in 1..(c - 1) : b \in called
  /\ LET r == ready(readyState, listeners, timers, c)
     IN  /\ listeners' = r.listeners
         /\ timers' = r.timers
  /\ called' = called \cup {c}
  /\ UNCHANGED <<readyState, runs, notified, exceptReady>>

\* the host has parsed the document
Interactive ==
  /\ readyState = "loading"
  /\ readyState' = "interactive"
  /\ UNCHANGED <<listeners, timers, called, runs, notified, exceptReady>>

\* the host's document-ready notification
HostNotify ==
  /\ readyState = "interactive" /\ ~notified.host
  /\ LET r == Dispatch(listeners, listeners, runs)
     IN  /\ listeners' = r.listeners
         /\ runs' = r.runs
  /\ notified' = [notified EXCEPT !.host = TRUE]
  /\ UNCHANGED <<readyState, timers, called, exceptReady>>

\* the host has loaded the document
Complete ==
  /\ readyState = "interactive" /\ notified.host
  /\ readyState' = "complete"
  /\ UNCHANGED <<listeners, timers, called, runs, notified, exceptReady>>

\* a script dispatches a DOMContentLoaded event on the document
ScriptNotify ==
  /\ notified.script < MaxNotify
  /\ LET r == Dispatch(listeners, listeners, runs)
     IN  /\ listeners' = r.listeners
         /\ runs' = r.runs
  /\ notified' = [notified EXCEPT !.script = @ + 1]
  /\ UNCHANGED <<readyState, timers, called, exceptReady>>

\* the host runs a timer set by setTimeout(callback, 1)
TimerFire(c) ==
  /\ c \in timers
  /\ timers' = timers \ {c}
  /\ runs' = callback(runs, c)
  /\ UNCHANGED <<readyState, listeners, called, notified, exceptReady>>

NextReady ==
  \/ \E c \in ReadyCalls : CallReady(c)
  \/ Interactive
  \/ HostNotify
  \/ Complete
  \/ ScriptNotify
  \/ \E c \in ReadyCalls : TimerFire(c)

\* ---------------------------------------------------------------------
\* Node kinds
\* ---------------------------------------------------------------------
\* const nodeTypes = [...]: index 0 of the code is position 1 here
nodeTypes ==
  <<"", "element", "attribute", "text", "cdata", "reference", "entity",
    "instruction", "comment", "document", "doctype", "fragment", "notation">>

\* a value: what typeof says of it, and its nodeType property if it has one
Value(type, tagged, tag) == [type |-> type, tagged |-> tagged, tag |-> tag]

TypeValues ==
  {Value(t, FALSE, 0) :
     t \in {"null", "undefined", "number", "string", "boolean", "object"}}
  \cup {Value("object", TRUE, tag) : tag \in (0 - MaxBeyond)..(12 + MaxBeyond)}

\* nodeTypes[index]: the element, or undefined
ArrayGet(array, index) ==
  IF index >= 0 /\ index < Len(array) THEN Str(array[index + 1])
  ELSE Undefined

\* the lookup made with the tag as a position counted from one
getType_fromOne(value) ==
  IF value.type \in {"null", "undefined"} THEN [threw |-> TRUE, value |-> ""]
  ELSE LET name == IF value.tagged /\ value.tag >= 1
                        /\ value.tag <= Len(nodeTypes)
                   THEN Str(nodeTypes[value.tag]) ELSE Undefined
       IN  [threw |-> FALSE,
            value |-> IF name \in {Undefined, Str("")} THEN "" ELSE name[2]]

\* getType(node): [threw, value]; reading nodeType of null or undefined
\* throws
getType(value) ==
  IF value.type \in {"null", "undefined"} THEN [threw |-> TRUE, value |-> ""]
  ELSE LET name == IF value.tagged THEN ArrayGet(nodeTypes, value.tag)
                   ELSE Undefined
       IN  [threw |-> FALSE,
            value |-> IF name \in {Undefined, Str("")} THEN "" ELSE name[2]]

\* isObject(value)
isObject(value) == value.type # "null" /\ value.type = "object"

\* isNode(value); undefined >= 1 is false
isNode(value) ==
  /\ isObject(value)
  /\ value.tagged
  /\ value.tag >= 1 /\ value.tag <= 12

NoTypeCall == [op |-> "none", threw |-> FALSE, name |-> "", is |-> FALSE]

TypeStart ==
  /\ typeValue \in TypeValues
  /\ typeCall = NoTypeCall

TypeIdle ==
  /\ typeValue = Value("null", FALSE, 0)
  /\ typeCall = NoTypeCall

CallGetType ==
  /\ typeCall' = [NoTypeCall EXCEPT !.op = "getType",
                                    !.threw = getType(typeValue).threw,
                                    !.name = getType(typeValue).value]
  /\ UNCHANGED <<typeValue, exceptType>>

CallIsNode ==
  /\ typeCall' = [NoTypeCall EXCEPT !.op = "isNode",
                                    !.is = isNode(typeValue)]
  /\ UNCHANGED <<typeValue, exceptType>>

NextType == CallGetType \/ CallIsNode

\* ---------------------------------------------------------------------
\* each(parent, callback).  The callback is the caller's code: each of its
\* invocations is a step of its own, in which it may change the parent's
\* children through the facade.
\* ---------------------------------------------------------------------
KidNames == <<"c1", "c2", "c3", "c4", "c5">>

\* the nodes that are, or can become, children of the parent: elements
\* and one text node
Kids == {KidNames[i] : i \in 1..MaxKids} \cup {"t1"}

EachNode == {Doc, "root"} \cup Kids

\* the sequences of distinct members of S
RECURSIVE Arrangements(_)
Arrangements(S) ==
  {<<>>} \cup UNION {{<<x>> \o rest : rest \in Arrangements(S \ {x})} :
                       x \in S}

\* parent.children: the element children, in document order
ElementChildren(nd, ch, parent) ==
  SelectSeq(ch[parent], LAMBDA c : nd[c].kind = "element")

\* iterating over whatever parent.children holds by now
forEachNext_live(array, live, i) ==
  IF i > Len(live) THEN [done |-> TRUE, element |-> NullNode]
  ELSE [done |-> FALSE, element |-> live[i]]

\* Array.from(parent.children).forEach(...): the i-th turn of the loop over
\* the array made at the start (live: parent.children by now)
forEachNext(array, live, i) ==
  IF i > Len(array) THEN [done |-> TRUE, element |-> NullNode]
  ELSE [done |-> FALSE, element |-> array[i]]

NoEachCall ==
  [phase |-> "idle", parent |-> NullNode, array |-> <<>>, i |-> 1,
   visited |-> <<>>, atCall |-> <<>>, result |-> NullNode]

\* what a callback may do with the parent's children
Effects ==
  {[op |-> "none", node |-> NullNode]}
  \cup {[op |-> o, node |-> k] : o \in {"remove", "append", "prepend"},
                                 k \in Kids}

Effect(nd, ch, parent, e) ==
  CASE e.op = "remove" -> remove(nd, ch, e.node)
    [] e.op = "append" -> append(nd, ch, parent, NodeArg(e.node))
    [] e.op = "prepend" -> prepend(nd, ch, parent, NodeArg(e.node))
    [] OTHER -> Ok(nd, ch)

EachStart ==
  /\ node = [n \in EachNode |->
       CASE n = Doc -> [kind |-> "document", tag |-> "", id |-> ""]
         [] n = "root" -> [kind |-> "element", tag |-> "div", id |-> ""]
         [] n = "t1" -> [kind |-> "text", tag |-> "", id |-> ""]
         [] OTHER -> [kind |-> "element", tag |-> "p", id |-> ""]]
  /\ \E kids \in Arrangements(Kids) :
       children = [n \in EachNode |->
         CASE n = Doc -> <<"root">>
           [] n = "root" -> kids
           [] OTHER -> <<>>]
  /\ fragmentNative = TRUE
  /\ docRange = NullNode
  /\ nodeFactory = NullNode
  /\ treeCall = NoTreeCall
  /\ eachCall = NoEachCall

EachIdle == eachCall = NoEachCall

\* each(parent, callback) is entered: the array is made
CallEach(parent) ==
  /\ eachCall.phase # "running"
  /\ eachCall' = [NoEachCall EXCEPT
                    !.phase = "running", !.parent = parent,
                    !.array = ElementChildren(node, children, parent),
                    !.atCall = children[parent]]
  /\ UNCHANGED <<treeVars, exceptEach>>

\* the next turn of forEach: callback.call(parent, element), the callback
\* doing e (child: the element was still a child of parent at that time)
Callback(e) ==
  /\ eachCall.phase = "running"
  /\ LET turn == forEachNext(eachCall.array,
                             ElementChildren(node, children, eachCall.parent),
                             eachCall.i)
         r == Effect(node, children, eachCall.parent, e)
     IN  /\ ~turn.done
         /\ ~r.threw
         /\ children' = r.children
         /\ eachCall' = [eachCall EXCEPT
              !.i = @ + 1,
              !.visited = Append(@,
                [element |-> turn.element, receiver |-> eachCall.parent,
                 child |-> Parent(children, turn.element)
                             = eachCall.parent])]
  /\ UNCHANGED <<node, fragmentNative, docRange, nodeFactory, treeCall,
                 exceptEach>>

\* forEach is through: return parent
ReturnEach ==
  /\ eachCall.phase = "running"
  /\ forEachNext(eachCall.array,
                 ElementChildren(node, children, eachCall.parent),
                 eachCall.i).done
  /\ eachCall' = [eachCall EXCEPT !.phase = "returned",
                                  !.result = eachCall.parent]
  /\ UNCHANGED <<treeVars, exceptEach>>

NextEach ==
  \/ CallEach("root")
  \/ \E e \in Effects : Callback(e)
  \/ ReturnEach

\* ---------------------------------------------------------------------
\* Specifications: one per group of helpers, the other groups at rest
\* ---------------------------------------------------------------------
InitClass ==
  /\ ClassStart
  /\ DataIdle
  /\ TreeIdle
  /\ EventIdle
  /\ MatchIdle
  /\ ReadyIdle
  /\ TypeIdle
  /\ EachIdle

SpecClass == InitClass /\ [][NextClass]_vars

InitData ==
  /\ DataStart
  /\ ClassIdle
  /\ TreeIdle
  /\ EventIdle
  /\ MatchIdle
  /\ ReadyIdle
  /\ TypeIdle
  /\ EachIdle

SpecData == InitData /\ [][NextData]_vars

InitTree ==
  /\ TreeStart
  /\ ClassIdle
  /\ DataIdle
  /\ EventIdle
  /\ MatchIdle
  /\ ReadyIdle
  /\ TypeIdle
  /\ EachIdle

SpecTree == InitTree /\ [][NextTree]_vars

SpecDetach == InitTree /\ [][NextDetach]_vars

InitFragment ==
  /\ FragmentStart
  /\ ClassIdle
  /\ DataIdle
  /\ EventIdle
  /\ MatchIdle
  /\ ReadyIdle
  /\ TypeIdle
  /\ EachIdle

SpecFragment == InitFragment /\ [][NextFragment]_vars

InitEvent ==
  /\ EventStart
  /\ ClassIdle
  /\ DataIdle
  /\ TreeIdle
  /\ MatchIdle
  /\ ReadyIdle
  /\ TypeIdle
  /\ EachIdle

SpecEvent == InitEvent /\ [][NextEvent]_vars

InitMatch ==
  /\ MatchStart
  /\ ClassIdle
  /\ DataIdle
  /\ TreeIdle
  /\ EventIdle
  /\ ReadyIdle
  /\ TypeIdle
  /\ EachIdle

SpecMatch == InitMatch /\ [][NextMatch]_vars

InitReady ==
  /\ ReadyStart
  /\ ClassIdle
  /\ DataIdle
  /\ TreeIdle
  /\ EventIdle
  /\ MatchIdle
  /\ TypeIdle
  /\ EachIdle

SpecReady == InitReady /\ [][NextReady]_vars

InitType ==
  /\ TypeStart
  /\ EachIdle
  /\ ClassIdle
  /\ DataIdle
  /\ TreeIdle
  /\ EventIdle
  /\ MatchIdle
  /\ ReadyIdle

SpecType == InitType /\ [][NextType]_vars

InitCopy ==
  /\ CopyStart
  /\ ClassIdle
  /\ DataIdle
  /\ EventIdle
  /\ MatchIdle
  /\ ReadyIdle
  /\ TypeIdle
  /\ EachIdle

SpecCopy == InitCopy /\ [][NextCopy]_vars

InitEach ==
  /\ EachStart
  /\ ClassIdle
  /\ DataIdle
  /\ EventIdle
  /\ MatchIdle
  /\ ReadyIdle
  /\ TypeIdle

SpecEach == InitEach /\ [][NextEach]_vars

\* the host runs every timer, finishes parsing, and then notifies
SpecReadyLive ==
  /\ SpecReady
  /\ WF_vars(Interactive)
  /\ WF_vars(HostNotify)
  /\ \A c \in ReadyCalls : WF_vars(TimerFire(c))

\* ---------------------------------------------------------------------
\* Claims about the class helpers (checked under SpecClass)
\* ---------------------------------------------------------------------
\* C1: hasClass(element, names) called right after addClass(element, names)
\* returns true, for names given as an array or as a space-separated
\* string, with the host class list and with the class-attribute fallback.
C1_AddThenHas ==
  (clsCall.op = "hasClass" /\ clsPrev.op = "addClass") => clsCall.result = TRUE

\* C1 witness: on the fallback path two names were added to an element
\* that had other content in its class attribute, and hasClass found both.
C1_Witness ==
  /\ clsCall.op = "hasClass" /\ clsPrev.op = "addClass"
  /\ ~classList
  /\ Len(clsCall.names) = 2 /\ clsCall.names[1] # clsCall.names[2]
  /\ Len(getClassNames(className)) >= 3
  /\ clsCall.result = TRUE

\* C2 as claimed: hasClass(element, names) called right after
\* removeClass(element, names), for a non-empty list of names, returns
\* false on both paths, whatever the class attribute held before.
C2_RemoveThenHas ==
  (clsCall.op = "hasClass" /\ clsPrev.op = "removeClass" /\ clsCall.names # <<>>)
  => clsCall.result = FALSE

\* C3 as claimed: two toggleClass calls in a row with the same names leave
\* the element with the class names it had before the first, and one call
\* flips the membership of each (distinct) listed name and of no other.
C3_ToggleInvolution ==
  /\ (clsCall.op = "toggleClass" /\ clsPrev.op = "toggleClass")
       => Tokens(className) = clsPrev.tokens
  /\ LET list == clsCall.names
     IN  (/\ clsCall.op = "toggleClass"
          /\ \A i, j \in 1..Len(list) : i # j => list[i] # list[j])
         => \A n \in ClassNames :
               (n \in Tokens(className))
                 <=> ((n \in clsCall.tokens) # (n \in Range(list)))

\* ---------------------------------------------------------------------
\* Claims about the data helpers (checked under SpecData)
\* ---------------------------------------------------------------------
\* C4: getData(element, key) called right after a setData(element, key,
\* value) that returned gives the string form of value (true gives
\* "true"), with the host dataset and with the fallback, and the value is
\* held by the kebab-case data-* attribute of the key (aB: data-a-b).
C4_SetThenGet ==
  (dataCall.op = "getData" /\ dataPrev.op = "setData")
  => /\ dataCall.result = Str(StringOf(dataPrev.value))
     /\ dataPrev.value = Bool(TRUE) => dataCall.result = Str("true")
     /\ dataPrev.value = Null => dataCall.result = Str("null")
     /\ dataCall.key = <<"a", "B">>
          => /\ <<"d", "a", "t", "a", "-", "a", "-", "b">> \in DOMAIN attributes
             /\ Str(attributes[<<"d", "a", "t", "a", "-", "a", "-", "b">>])
                  = dataCall.result

\* C4 witness: on the fallback path the boolean true was stored under the
\* camelCase key aB and read back as the string "true".
C4_Witness ==
  /\ dataCall.op = "getData" /\ dataPrev.op = "setData"
  /\ ~dataset
  /\ dataCall.key = <<"a", "B">>
  /\ dataPrev.value = Bool(TRUE)
  /\ dataCall.result = Str("true")

\* ---------------------------------------------------------------------
\* Claims about tree mutation and traversal (checked under SpecTree)
\* ---------------------------------------------------------------------
Descriptors(nodes) == [i \in 1..Len(nodes) |-> node[nodes[i]]]

IsSuffix(tail, seq) ==
  /\ Len(tail) <= Len(seq)
  /\ SubSeq(seq, Len(seq) - Len(tail) + 1, Len(seq)) = tail

\* C6: after an append(parent, x) that returned, the node passed (or the
\* nodes parsed from the markup passed, in markup order) are the last
\* children of parent, behind the children that were already there in
\* their old relative order; and after successive appends on one parent
\* with distinct nodes, those nodes end the child list in call order.
C6_AppendLast ==
  (treeCall.op = "append" /\ ~treeCall.threw)
  => /\ treeCall.nodes # <<>>
     /\ children[treeCall.target] = treeCall.rest \o treeCall.nodes
     /\ treeCall.html # <<>> => Descriptors(treeCall.nodes) = Parse(treeCall.html)
     /\ IsSuffix(treeCall.run, children[treeCall.target])

\* C6 witness: an existing element was appended behind a child parsed from
\* '<p id="x"></p>' by the append just before it, on the same parent.
C6_Witness ==
  /\ treeCall.op = "append" /\ ~treeCall.threw
  /\ treeCall.html = <<>>
  /\ treeCall.nodes = <<"a">>
  /\ Len(treeCall.run) = Len(treeCall.rest) + 1
  /\ treeCall.rest # <<>>
  /\ node[treeCall.rest[Len(treeCall.rest)]].id = "x"

\* C7: after a prepend(parent, x) that returned, the node passed (or the
\* nodes parsed from the markup) are the first children of parent and the
\* children that were already there follow in their old relative order;
\* when parent had no child, they are its only children, as after append.
C7_PrependFirst ==
  (treeCall.op = "prepend" /\ ~treeCall.threw)
  => /\ treeCall.nodes # <<>>
     /\ children[treeCall.target] = treeCall.nodes \o treeCall.rest
     /\ treeCall.edge => children[treeCall.target] = treeCall.nodes

\* C7 witness: an existing node was prepended to a parent without children.
C7_Witness ==
  /\ treeCall.op = "prepend" /\ ~treeCall.threw
  /\ treeCall.edge
  /\ treeCall.html = <<>>
  /\ children[treeCall.target] = treeCall.nodes
  /\ Len(treeCall.nodes) = 1

\* C8: after an after(target, n) that returned, with an existing node n
\* other than target, n is the next sibling of target, the other children
\* of target's parent keep their relative order, and when target had no
\* following sibling n is the parent's last child.
C8_AfterNext ==
  (/\ treeCall.op = "after" /\ ~treeCall.threw
   /\ treeCall.html = <<>> /\ treeCall.nodes # <<treeCall.target>>)
  => LET parent == Parent(children, treeCall.target)
         seq == children[parent]
         n == treeCall.nodes[1]
     IN  /\ NextSibling(children, treeCall.target) = n
         /\ SelectSeq(seq, LAMBDA c : c # n) = treeCall.rest
         /\ treeCall.edge => seq[Len(seq)] = n

\* C8 witness: a node was put after a last child that has two siblings.
C8_Witness ==
  /\ treeCall.op = "after" /\ ~treeCall.threw
  /\ treeCall.html = <<>> /\ treeCall.nodes # <<treeCall.target>>
  /\ treeCall.edge
  /\ Len(treeCall.rest) >= 2
  /\ NextSibling(children, treeCall.target) = treeCall.nodes[1]

\* C9: when the start element or a node up its parent chain matches the
\* selector, closest returns the nearest such node, the start element
\* itself when it matches, with or without a native closest method.
Candidates(element, selector) ==
  {n \in Node : /\ IsInclusiveAncestor(children, n, element)
                /\ node[n].kind = "element"
                /\ SelectorMatches(node[n], selector)}

C9_ClosestSelfFirst ==
  LET cands == Candidates(treeCall.target, treeCall.selector)
  IN  (treeCall.op = "closest" /\ cands # {})
      => /\ ~treeCall.threw
         /\ treeCall.result \in cands
         /\ \A c \in cands : IsInclusiveAncestor(children, c, treeCall.result)
         /\ treeCall.target \in cands => treeCall.result = treeCall.target

\* C9 witness: on the manual walk the start element matched and was
\* returned although an ancestor of it matches too.
C9_Witness ==
  /\ treeCall.op = "closest" /\ ~treeCall.native /\ ~treeCall.threw
  /\ treeCall.result = treeCall.target
  /\ Cardinality(Candidates(treeCall.target, treeCall.selector)) >= 2

\* C17: on the manual walk, when neither the start element nor any node up
\* its parent chain matches the selector, closest raises nothing and
\* returns null, for an element in the document and for a detached one.
C17_WalkEndsWithNull ==
  (/\ treeCall.op = "closest" /\ ~treeCall.native
   /\ Candidates(treeCall.target, treeCall.selector) = {})
  => (~treeCall.threw /\ treeCall.result = NullNode)

\* (C12 is checked under SpecDetach.)
\* C12: a remove(node) call returns node and raises nothing; when node had
\* a parent, node has none afterwards, the former parent keeps its other
\* children in their order and every other node keeps its children; when
\* node had no parent, no node's children change.
C12_RemoveDetachesOrNothing ==
  [][treeCall'.op = "remove" =>
       LET n == treeCall'.target
           parent == Parent(children, n)
       IN  /\ treeCall'.result = n /\ ~treeCall'.threw
           /\ node' = node
           /\ Parent(children', n) = NullNode
           /\ children'[n] = children[n]
           /\ IF parent = NullNode THEN children' = children
              ELSE /\ children'[parent]
                        = SelectSeq(children[parent], LAMBDA c : c # n)
                   /\ \A m \in Node \ {parent} :
                        children'[m] = children[m]]_vars

\* C12 witness: a node with children of its own was removed from a parent
\* that keeps another child.
C12_Witness ==
  /\ treeCall.op = "remove" /\ treeCall.edge /\ ~treeCall.threw
  /\ Parent(children, treeCall.target) = NullNode
  /\ treeCall.rest # <<>>
  /\ children[treeCall.target] # <<>>

\* ---------------------------------------------------------------------
\* Claims about fragment creation (checked under SpecFragment)
\* ---------------------------------------------------------------------
\* C5: fragment(html) for a non-empty markup string returns, on the
\* createContextualFragment path and on the scratch-element path alike, a
\* fragment made by this call, without parent, whose children are exactly
\* the nodes parsed from html, in markup order.
C5_FragmentSameOnBothPaths ==
  (treeCall.op = "fragment" /\ treeCall.html # <<>>)
  => /\ node[treeCall.result].kind = "fragment"
     /\ treeCall.fresh
     /\ Parent(children, treeCall.result) = NullNode
     /\ Descriptors(children[treeCall.result]) = Parse(treeCall.html)
     /\ treeCall.html[1] = "<p id=\"x\"></p>"
          => node[FirstChild(children, treeCall.result)].id = "x"

\* C5 witness: the scratch-element path, used for a second time, returned
\* a fragment with two children from a markup string of two elements.
C5_Witness ==
  /\ treeCall.op = "fragment" /\ ~fragmentNative
  /\ Len(treeCall.html) = 2 /\ treeCall.html[1] # treeCall.html[2]
  /\ Len(children[treeCall.result]) = 2
  /\ Cardinality({n \in DOMAIN node : node[n].kind = "fragment"}) >= 2

\* ---------------------------------------------------------------------
\* Claims about event construction (checked under SpecEvent)
\* ---------------------------------------------------------------------
\* the seven kinds and the native constructor each one stands for
C10_Constructors ==
  [event |-> <<"Event">>, ui |-> <<"UI", "Event">>,
   keyboard |-> <<"Keyboard", "Event">>, mouse |-> <<"Mouse", "Event">>,
   wheel |-> <<"Wheel", "Event">>, focus |-> <<"Focus", "Event">>,
   custom |-> <<"Custom", "Event">>]

C10_IsKind(type) == Len(type) = 1 /\ type[1] \in DOMAIN C10_Constructors

\* the host can build the interface, by its constructor or by create + init
C10_Supported(interface) ==
  interface \in engine.modern \cup (engine.create \cap engine.init)

\* C10: event(kind, name, config) returns null, raising nothing and
\* creating no event, exactly when kind is none of event, ui, keyboard,
\* mouse, wheel, focus, custom; for each of the seven, with or without a
\* config, on a host that can build the interface, it returns an event of
\* the matching interface (Event, UIEvent, KeyboardEvent, MouseEvent,
\* WheelEvent, FocusEvent, CustomEvent) and of the name passed.
C10_NullIffUnknownKind ==
  eventCall.op = "event" =>
    LET out == eventCall.out
    IN  /\ (out.returned = "null") <=> ~C10_IsKind(eventCall.type)
        /\ out.returned = "null" => (~out.threw /\ out.created = 0)
        /\ (C10_IsKind(eventCall.type)
             /\ C10_Supported(C10_Constructors[eventCall.type[1]]))
           => /\ out.returned = "event" /\ ~out.threw /\ out.created = 1
              /\ out.event.interface = C10_Constructors[eventCall.type[1]]
              /\ out.event.type = eventCall.name
        /\ out.returned = "event"
           => out.event.interface = C10_Constructors[eventCall.type[1]]

\* C10 witness: a wheel event built by create + init, without a config,
\* on a host whose WheelEvent constructor fails.
C10_Witness ==
  /\ eventCall.op = "event" /\ eventCall.type = <<"wheel">>
  /\ ~eventCall.config.given
  /\ <<"Wheel", "Event">> \notin engine.modern
  /\ eventCall.out.returned = "event"
  /\ eventCall.out.event.form = <<"init", "Wheel", "Event">>

\* ---------------------------------------------------------------------
\* Claims about the scratch element (checked under SpecFragment)
\* ---------------------------------------------------------------------
\* C15: when a fragment(html) call on the scratch-element path returns, the
\* scratch element has no children, the returned fragment holds exactly
\* the nodes parsed in this call (none that existed before it), as many
\* and of the kinds its own markup says, and every node that existed
\* before the call keeps its children.
C15_ScratchDrained ==
  [][(treeCall'.op = "fragment" /\ ~fragmentNative) =>
       LET r == treeCall'.result
       IN  /\ nodeFactory' # NullNode => children'[nodeFactory'] = <<>>
           /\ \A n \in Range(children'[r]) : node[n].kind = "free"
           /\ [i \in 1..Len(children'[r]) |->
                 [kind |-> node'[children'[r][i]].kind,
                  tag |-> node'[children'[r][i]].tag,
                  id |-> node'[children'[r][i]].id]]
                = Parse(treeCall'.html)
           /\ \A m \in DOMAIN node :
                (node[m].kind # "free" /\ m # nodeFactory)
                  => children'[m] = children[m]]_vars

\* C15 witness: the scratch element has served two calls with different
\* markup and is empty; both fragments hold their own nodes.
C15_Witness ==
  /\ treeCall.op = "fragment" /\ ~fragmentNative
  /\ nodeFactory # NullNode /\ children[nodeFactory] = <<>>
  /\ \E f \in DOMAIN node \ {treeCall.result} :
       /\ node[f].kind = "fragment"
       /\ children[f] # <<>>
       /\ Descriptors(children[f]) # Descriptors(children[treeCall.result])
  /\ Len(children[treeCall.result]) = 2

\* C16: for every kind and config, the event the create-then-init path
\* builds has the same attribute values as the event the constructor path
\* builds from the same arguments (absent fields reading 0, false, null or
\* the empty string on both).  Checked on the event a call returned
\* against the event the other path builds.
C16_SameFieldsOnBothPaths ==
  (eventCall.op = "event" /\ eventCall.out.returned = "event") =>
    LET config == IF eventCall.config.given THEN eventCall.config.object
                  ELSE EmptyObject
        t == eventCall.out.event.interface
        modern == Construct(t, eventCall.name, config)
        legacy == CreateAndInit(t, eventCall.name, config,
                                Switch(eventCall.type, config).args)
    IN  /\ eventCall.out.event \in {modern, legacy}
        /\ modern.type = legacy.type
        /\ modern.fields = legacy.fields

\* ---------------------------------------------------------------------
\* Claims about matches (checked under SpecMatch)
\* ---------------------------------------------------------------------
\* the capability names in the order the claim gives them
C11_Order ==
  <<"matches", "matchesSelector", "webkitMatchesSelector",
    "mozMatchesSelector", "msMatchesSelector", "oMatchesSelector">>

C11_Exposed == {i \in 1..Len(C11_Order) : elementMethods[C11_Order[i]].exposed}

\* C11: matches(element, selector) returns what the first method the
\* element exposes, in the order matches, matchesSelector,
\* webkitMatchesSelector, mozMatchesSelector, msMatchesSelector,
\* oMatchesSelector, answers for the selector; when the element exposes
\* none of them the call throws and returns no value.
C11_FirstCapabilityOrError ==
  matchCall.op = "matches" =>
    LET out == matchCall.out
    IN  IF C11_Exposed = {} THEN out.threw
        ELSE LET first == CHOOSE i \in C11_Exposed :
                            \A j \in C11_Exposed : i <= j
             IN  /\ ~out.threw
                 /\ out.by = C11_Order[first]
                 /\ out.value
                      = (matchCall.selector
                           \in elementMethods[C11_Order[first]].accepts)

\* C11 witness: the element lacks the standard method and exposes two
\* prefixed ones that disagree on the selector; the earlier one answered.
C11_Witness ==
  /\ matchCall.op = "matches" /\ ~matchCall.out.threw
  /\ ~elementMethods["matches"].exposed
  /\ Cardinality(C11_Exposed) >= 2
  /\ \E i \in C11_Exposed :
       (matchCall.selector \in elementMethods[C11_Order[i]].accepts)
         # matchCall.out.value
  /\ matchCall.out.by = "webkitMatchesSelector"

\* ---------------------------------------------------------------------
\* Claims about ready (checked under SpecReadyLive)
\* ---------------------------------------------------------------------
\* C13: for each ready(callback) call the callback is invoked exactly once:
\* never before the call has returned, never a second time whatever
\* notifications follow, and eventually once; once it has run, the call's
\* listener is no longer registered and no timer of it is pending.
C13_ReadyOnce ==
  /\ [](\A c \in ReadyCalls :
         /\ runs[c] <= 1
         /\ c \notin called => runs[c] = 0
         /\ runs[c] = 1 => (c \notin Range(listeners) /\ c \notin timers))
  /\ [][called' # called => runs' = runs]_vars
  /\ \A c \in ReadyCalls : (c \in called) ~> (runs[c] = 1)

\* C13 witness: a call made while the document was loading had its
\* callback run once by the host's notification, and a script's
\* notification has been dispatched since.
C13_Witness ==
  /\ 1 \in called /\ runs[1] = 1 /\ 1 \notin timers
  /\ notified.host /\ notified.script >= 1
  /\ listeners = <<>>
  /\ \E c \in called : c \in timers

\* ---------------------------------------------------------------------
\* Claims about node kinds (checked under SpecType)
\* ---------------------------------------------------------------------
\* the platform's node-type enumeration and the documented names
C14_Names ==
  [t \in 0..12 |->
     CASE t = 0 -> ""
       [] t = 1 -> "element"      \* ELEMENT_NODE
       [] t = 2 -> "attribute"    \* ATTRIBUTE_NODE
       [] t = 3 -> "text"         \* TEXT_NODE
       [] t = 4 -> "cdata"        \* CDATA_SECTION_NODE
       [] t = 5 -> "reference"    \* ENTITY_REFERENCE_NODE
       [] t = 6 -> "entity"       \* ENTITY_NODE
       [] t = 7 -> "instruction"  \* PROCESSING_INSTRUCTION_NODE
       [] t = 8 -> "comment"      \* COMMENT_NODE
       [] t = 9 -> "document"     \* DOCUMENT_NODE
       [] t = 10 -> "doctype"     \* DOCUMENT_TYPE_NODE
       [] t = 11 -> "fragment"    \* DOCUMENT_FRAGMENT_NODE
       [] t = 12 -> "notation"]   \* NOTATION_NODE

\* C14: getType of an object with tag 0..12 is the documented name of the
\* tag (the empty string for 0), of an object with any other tag the empty
\* string; isNode(value) is true exactly when value is a non-null object
\* with a tag from 1 to 12, so false for null and for an untagged object.
C14_TypeNames ==
  /\ (typeCall.op = "getType" /\ typeValue.tagged)
     => /\ ~typeCall.threw
        /\ typeCall.name = IF typeValue.tag \in 0..12
                           THEN C14_Names[typeValue.tag] ELSE ""
  /\ typeCall.op = "isNode"
     => (typeCall.is <=> /\ typeValue.type = "object"
                         /\ typeValue.tagged
                         /\ typeValue.tag \in 1..12)

\* C14 witness: getType answered "notation" for tag 12, the last tag.
C14_Witness ==
  /\ typeCall.op = "getType" /\ typeValue.tagged /\ typeValue.tag = 12
  /\ typeCall.name = "notation"

\* ---------------------------------------------------------------------
\* Claims about fragment(template) for nodes (checked under SpecCopy)
\* ---------------------------------------------------------------------
\* what a node and the nodes below it look like
RECURSIVE Shape(_)
Shape(n) ==
  [desc |-> node[n],
   kids |-> [i \in 1..Len(children[n]) |-> Shape(children[n][i])]]

\* C19: fragment(template) for an element without fragment content, for a
\* fragment and for an array of nodes raises nothing and returns a new
\* fragment whose children are deep copies of the source nodes in their
\* order; no source node is a child of it, and every source node keeps
\* its parent and its place among that parent's children.
C19_CopiesLeaveSource ==
  (treeCall.op = "fragmentOf" /\ treeCall.target # "tpl") =>
    /\ ~treeCall.threw
    /\ treeCall.fresh /\ node[treeCall.result].kind = "fragment"
    /\ Parent(children, treeCall.result) = NullNode
    /\ [i \in 1..Len(children[treeCall.result]) |->
          Shape(children[treeCall.result][i])]
         = [i \in 1..Len(treeCall.nodes) |-> Shape(treeCall.nodes[i])]
    /\ Range(children[treeCall.result]) \cap Range(treeCall.nodes) = {}
    /\ \A i \in 1..Len(treeCall.nodes) :
         /\ Parent(children, treeCall.nodes[i]) = treeCall.run[i]
         /\ treeCall.run[i] # NullNode
              => children[treeCall.run[i]] = treeCall.rest[i]

\* ---------------------------------------------------------------------
\* Claims about each (checked under SpecEach)
\* ---------------------------------------------------------------------
\* the element children the parent had when each was called
C18_AtCall ==
  SelectSeq(eachCall.atCall, LAMBDA c : node[c].kind = "element")

\* C18: the callback is invoked once for each element child the parent had
\* when each was called, in document order and with the parent as
\* receiver, whatever the callback does to the parent's children in the
\* meantime: while the call runs the invocations made are the first of
\* that list, when it returns they are the whole list; a child that is
\* not an element is never passed, and each returns the parent.
C18_EachSnapshot ==
  eachCall.phase # "idle" =>
    /\ Len(eachCall.visited) <= Len(C18_AtCall)
    /\ \A k \in 1..Len(eachCall.visited) :
         /\ eachCall.visited[k].element = C18_AtCall[k]
         /\ eachCall.visited[k].receiver = eachCall.parent
         /\ node[eachCall.visited[k].element].kind = "element"
    /\ eachCall.phase = "returned" =>
         /\ Len(eachCall.visited) = Len(C18_AtCall)
         /\ eachCall.result = eachCall.parent

\* C18 witness: each returned after two invocations, the second one for an
\* element an earlier callback had already removed from the parent; the
\* parent also had a text child at the call.
C18_Witness ==
  /\ eachCall.phase = "returned" /\ Len(eachCall.visited) = 2
  /\ "t1" \in Range(eachCall.atCall)
  /\ ~eachCall.visited[2].child
  /\ children[eachCall.parent] # eachCall.atCall

====
